---- MODULE Spec2Model ----
(***************************************************************************)
(* Model of dataframe_api_compat/pandas_standard/pandas_standard.py:       *)
(* PandasExpression (deferred call chains), PandasColumn, PandasDataFrame  *)
(* and PandasEagerFrame, with the pandas objects they wrap.                *)
(*                                                                         *)
(* Python objects live in heaps (sequences indexed by object identity):    *)
(*   exprs  - PandasExpression objects                                     *)
(*   lists  - the Python list object held in PandasExpression._calls       *)
(*   cols   - PandasColumn objects                                         *)
(*   frames - pandas DataFrame objects referenced by Tables                *)
(*   tables - PandasDataFrame / PandasEagerFrame objects                   *)
(*   last   - the last public call: its name, arguments and outcome        *)
(*                                                                         *)
(* Values of a pandas Series are integers; booleans are 0/1 under dtype    *)
(* "bool"; NA is the missing-value marker that pandas alignment inserts.   *)
(***************************************************************************)
EXTENDS Integers, Sequences, FiniteSets, TLC

VARIABLES exprs, lists, cols, frames, tables, last

vars == <<exprs, lists, cols, frames, tables, last>>

(***************************************************************************)
(* Bounds of the model.                                                    *)
(***************************************************************************)
MaxExprs == 3
MaxColumnExprs == 2
MaxTables == 4
MaxColumns == 2

\* Python's recursion limit, scaled to the longest chain the bounds allow:
\* an acyclic chain of MaxExprs expressions never nests deeper than this.
RecursionLimit == MaxExprs + 2

(***************************************************************************)
(* Names.  A pandas label may be a str, None, or an int (the position that *)
(* pd.concat gives an unnamed Series).  Non-str labels are encoded as the  *)
(* reserved strings below; IsStr is isinstance(name, str).                 *)
(***************************************************************************)
NoneName == "<None>"
IntName(k) == "<" \o ToString(k) \o ">"
IntNames == {IntName(k) : k \in 0..3}
IsStr(n) == n \notin ({NoneName} \cup IntNames)

NA == -99
\* In a numpy-backed float64 column the one missing marker is NaN, which
\* pandas takes as missing: it is written NA.  A column of the extension
\* dtype Float64 has pd.NA (NA) and, apart from it, NaN as a float value.
NaN == -98
is_extension_array_dtype(dtype) == dtype = "Float64"
\* dtype "str": an object column of Python strings, each given by a code
IsNumeric(dtype) == dtype \in {"int64", "float64", "Float64", "bool"}

LATEST_API_VERSION == "2023.08-beta"
SUPPORTED_VERSIONS == {LATEST_API_VERSION, "2023.09-beta"}

(***************************************************************************)
(* Values that flow through resolution.                                    *)
(***************************************************************************)
Ser(name, index, vals, dtype) ==
  [kind |-> "series", name |-> name, index |-> index, vals |-> vals, dtype |-> dtype]
Scalar(v, dtype) == [kind |-> "scalar", v |-> v, dtype |-> dtype]
Err(e) == [kind |-> "error", err |-> e]
None == [kind |-> "none"]
ExprRef(id) == [kind |-> "expr", id |-> id]
ColRef(id) == [kind |-> "column", id |-> id]
TableRef(id) == [kind |-> "table", id |-> id]

IsErr(x) == x.kind = "error"
IsSeries(x) == x.kind = "series"

RangeIndex(n) == [i \in 1..n |-> i - 1]
IsCanonical(index) == index = RangeIndex(Len(index))

SeqToSet(s) == {s[i] : i \in DOMAIN s}
PosOf(s, x) == CHOOSE i \in DOMAIN s : s[i] = x
SelectPos(s, keep) ==
  LET F[i \in 0..Len(s)] ==
        IF i = 0 THEN <<>>
        ELSE IF i \in keep THEN Append(F[i - 1], s[i]) ELSE F[i - 1]
  IN F[Len(s)]
\* first-appearance union of two label sequences (Index.union, sort=False)
UnionIndex(a, b) ==
  a \o SelectPos(b, {i \in DOMAIN b : b[i] \notin SeqToSet(a)})
\* sorted union of two label sequences (Index.union, default sort)
SortedSeq(S) ==
  LET F[T \in SUBSET S] ==
        IF T = {} THEN <<>>
        ELSE LET m == CHOOSE x \in T : \A y \in T : x <= y
             IN <<m>> \o F[T \ {m}]
  IN F[S]
\* Series.reindex(index): values by label, NA where the label is absent
Reindex(s, index) ==
  [i \in DOMAIN index |->
     IF index[i] \in SeqToSet(s.index) THEN s.vals[PosOf(s.index, index[i])] ELSE NA]

(***************************************************************************)
(* The elementary operations: the lambdas and local functions that the     *)
(* PandasExpression methods hand to _record_call.  A recorded function is  *)
(* [op, name, v]: the operation, and the name / value / flag it closes     *)
(* over (rename's name, fill_null's value, sort's ascending as 0/1).       *)
(***************************************************************************)
Fn(op) == [op |-> op, name |-> "", v |-> 0]
FnName(op, name) == [op |-> op, name |-> name, v |-> 0]
FnVal(op, v) == [op |-> op, name |-> "", v |-> v]

Comparisons == {"eq", "ne", "ge", "gt", "le", "lt"}
Arithmetic == {"add", "sub", "mul", "floordiv"}

B(p) == IF p THEN 1 ELSE 0

\* one element of ser <op> other; a comparison with a missing value is
\* False, except != which is True
CmpVal(op, a, b) ==
  IF a = NA \/ b = NA THEN B(op = "ne")
  ELSE CASE op = "eq" -> B(a = b)
         [] op = "ne" -> B(a # b)
         [] op = "ge" -> B(a >= b)
         [] op = "gt" -> B(a > b)
         [] op = "le" -> B(a <= b)
         [] op = "lt" -> B(a < b)

\* one element of ser + other, ser - other, ser * other; bool + bool and
\* bool * bool are the logical or / and of numpy
\* division rounded toward zero
TruncDivVal(a, b) ==
  LET Abs(x) == IF x < 0 THEN -x ELSE x
      q == Abs(a) \div Abs(b)
  IN IF (a < 0) = (b < 0) THEN q ELSE -q

\* one element of ser // other on integers: numpy's floor_divide
FloorDivVal(a, b) == IF b > 0 THEN a \div b ELSE (-a) \div (-b)

ArithVal(op, a, b, bothBool) ==
  IF a = NA \/ b = NA THEN NA
  ELSE CASE op = "add" -> IF bothBool THEN B(a + b > 0) ELSE a + b
         [] op = "sub" -> a - b
         [] op = "mul" -> a * b
         \* a zero divisor gives inf or NaN in a float column; the two are
         \* not told apart here
         [] op = "floordiv" -> IF b = 0 THEN NA ELSE FloorDivVal(a, b)

ArithDtype(vals, l, r) ==
  IF \E i \in DOMAIN vals : vals[i] = NA THEN "float64"
  ELSE IF l = "bool" /\ r = "bool" THEN "bool"
  ELSE IF l = "float64" \/ r = "float64" THEN "float64"
  ELSE "int64"

\* (ser <cmp> other).rename(ser.name)
Compare(op, ser, other) ==
  CASE other.kind = "scalar" ->
         Ser(ser.name, ser.index,
             [i \in DOMAIN ser.vals |-> CmpVal(op, ser.vals[i], other.v)], "bool")
    [] other.kind = "series" ->
         IF other.index # ser.index
         THEN Err("ValueError")   \* Can only compare identically-labeled Series
         ELSE Ser(ser.name, ser.index,
                  [i \in DOMAIN ser.vals |-> CmpVal(op, ser.vals[i], other.vals[i])],
                  "bool")
    [] OTHER -> Err("TypeError")

\* (ser <arith> other).rename(ser.name); two Series are aligned on the
\* union of their labels first
Arith(op, ser, other) ==
  CASE other.kind = "scalar" ->
         LET vals == [i \in DOMAIN ser.vals |->
                        ArithVal(op, ser.vals[i], other.v,
                                 ser.dtype = "bool" /\ other.dtype = "bool")]
         IN Ser(ser.name, ser.index, vals, ArithDtype(vals, ser.dtype, other.dtype))
    [] other.kind = "series" ->
         LET index == IF other.index = ser.index THEN ser.index
                      ELSE SortedSeq(SeqToSet(ser.index) \cup SeqToSet(other.index))
             l == Reindex(ser, index)
             r == Reindex(other, index)
             vals == [i \in DOMAIN index |->
                        ArithVal(op, l[i], r[i],
                                 ser.dtype = "bool" /\ other.dtype = "bool")]
         IN Ser(ser.name, index, vals, ArithDtype(vals, ser.dtype, other.dtype))
    [] OTHER -> Err("TypeError")    \* unsupported operand type(s)

\* ser.loc[mask]
Loc(ser, mask) ==
  CASE mask.kind = "series" /\ mask.dtype = "bool" ->
         \* check_bool_indexer: the mask is reindexed to ser's labels
         IF ~(SeqToSet(ser.index) \subseteq SeqToSet(mask.index))
         THEN Err("IndexingError")
         ELSE LET m == Reindex(mask, ser.index)
                  keep == {i \in DOMAIN ser.index : m[i] = 1}
              IN Ser(ser.name, SelectPos(ser.index, keep),
                     SelectPos(ser.vals, keep), ser.dtype)
    [] mask.kind = "series" /\ mask.dtype = "int64" ->
         \* a list of labels
         IF ~(SeqToSet(mask.vals) \subseteq SeqToSet(ser.index))
         THEN Err("KeyError")
         ELSE Ser(ser.name, mask.vals,
                  [i \in DOMAIN mask.vals |-> ser.vals[PosOf(ser.index, mask.vals[i])]],
                  ser.dtype)
    [] mask.kind = "scalar" /\ mask.dtype = "int64" ->
         \* a single label
         IF mask.v \in SeqToSet(ser.index)
         THEN Scalar(ser.vals[PosOf(ser.index, mask.v)], ser.dtype)
         ELSE Err("KeyError")
    [] OTHER -> Err("KeyError")

\* lhs.iloc[rhs].reset_index(drop=True)
ILocReset(lhs, rhs) ==
  LET n == Len(lhs.vals) IN
  CASE rhs.kind = "series" /\ rhs.dtype = "int64" ->
         IF \E i \in DOMAIN rhs.vals : rhs.vals[i] >= n \/ rhs.vals[i] < -n
         THEN Err("IndexError")
         ELSE Ser(lhs.name, RangeIndex(Len(rhs.vals)),
                  [i \in DOMAIN rhs.vals |->
                     lhs.vals[(IF rhs.vals[i] < 0 THEN rhs.vals[i] + n ELSE rhs.vals[i]) + 1]],
                  lhs.dtype)
    [] rhs.kind = "series" /\ rhs.dtype = "bool" -> Err("NotImplementedError")
    [] rhs.kind = "scalar" /\ rhs.dtype = "int64" ->
         \* iloc[int] is an element, which has no reset_index
         IF rhs.v >= n \/ rhs.v < -n THEN Err("IndexError") ELSE Err("AttributeError")
    [] OTHER -> Err("TypeError")

\* ser.sort_values(ascending=ascending).reset_index(drop=True): missing
\* values go last whatever the direction
SortValues(ser, ascending) ==
  LET present == {i \in DOMAIN ser.vals : ser.vals[i] # NA}
      Count(S, x) == Cardinality({i \in S : ser.vals[i] = x})
      Rep(x, k) == [j \in 1..k |-> x]
      distinct == SortedSeq({ser.vals[i] : i \in present})
      Up[k \in 0..Len(distinct)] ==
        IF k = 0 THEN <<>>
        ELSE Up[k - 1] \o Rep(distinct[k], Count(present, distinct[k]))
      Down[k \in 0..Len(distinct)] ==
        IF k = 0 THEN <<>>
        ELSE Rep(distinct[k], Count(present, distinct[k])) \o Down[k - 1]
      sorted == IF ascending THEN Up[Len(distinct)] ELSE Down[Len(distinct)]
  IN Ser(ser.name, RangeIndex(Len(ser.vals)),
         sorted \o Rep(NA, Len(ser.vals) - Cardinality(present)), ser.dtype)

\* sorted_indices: ser.sort_values().index.to_series(), reversed as a whole
\* when not ascending, then reset_index(drop=True).  sort_values puts the
\* missing values last and keeps ties in their order; the Series made from
\* the index has no name.
SortedIndices(ser, ascending) ==
  LET n == Len(ser.vals)
      Before(i, j) ==
        IF ser.vals[i] = ser.vals[j] THEN i < j
        ELSE IF ser.vals[i] = NA THEN FALSE
        ELSE IF ser.vals[j] = NA THEN TRUE
        ELSE ser.vals[i] < ser.vals[j]
      Rank(i) == Cardinality({j \in 1..n : Before(j, i)}) + 1
      up == [r \in 1..n |-> ser.index[CHOOSE i \in 1..n : Rank(i) = r]]
  IN Ser(NoneName, RangeIndex(n),
         IF ascending THEN up ELSE [r \in 1..n |-> up[n + 1 - r]], "int64")

\* ser.sum(): missing values are skipped
SumVals(vals) ==
  LET F[i \in 0..Len(vals)] ==
        IF i = 0 THEN 0
        ELSE F[i - 1] + (IF vals[i] = NA THEN 0 ELSE vals[i])
  IN F[Len(vals)]

\* ser.cumsum(): a missing value stays missing and is skipped by the sum
CumSum(ser) ==
  Ser(ser.name, ser.index,
      [i \in DOMAIN ser.vals |->
         IF ser.vals[i] = NA THEN NA ELSE SumVals(SubSeq(ser.vals, 1, i))],
      IF ser.dtype = "bool" THEN "int64" ELSE ser.dtype)

\* ser.fillna(value)
FillNa(ser, value) ==
  Ser(ser.name, ser.index,
      [i \in DOMAIN ser.vals |-> IF ser.vals[i] = NA THEN value ELSE ser.vals[i]],
      ser.dtype)

\* ser.isna(): the missing marker; NaN in an extension column is a value
IsNa(ser) ==
  Ser(ser.name, ser.index, [i \in DOMAIN ser.vals |-> B(ser.vals[i] = NA)], "bool")

\* np.isnan(ser) with the missing slots of the result taken as False:
\* np.isnan(ser).fillna(False), np.isnan(ser).replace(pd.NA, False)
NpIsNan(ser) ==
  [i \in DOMAIN ser.vals |->
     IF is_extension_array_dtype(ser.dtype) THEN ser.vals[i] = NaN ELSE ser.vals[i] = NA]

\* the func of PandasExpression.is_nan, and the loop body of
\* PandasDataFrame.is_nan
IsNanFunc(ser) ==
  IF is_extension_array_dtype(ser.dtype)
  THEN Ser(ser.name, ser.index, [i \in DOMAIN ser.vals |-> B(NpIsNan(ser)[i])], "bool")
  ELSE IsNa(ser)

\* the func of PandasExpression.fill_nan, and the loop body of
\* PandasDataFrame.fill_nan: ser[np.isnan(ser)...] = value on a copy
FillNanFunc(ser, value) ==
  IF ~IsNumeric(ser.dtype) THEN Err("TypeError")     \* np.isnan on an object column
  ELSE Ser(ser.name, ser.index,
           [i \in DOMAIN ser.vals |-> IF NpIsNan(ser)[i] THEN value ELSE ser.vals[i]],
           ser.dtype)

\* the func of PandasExpression.fill_null, and the loop body of
\* PandasDataFrame.fill_null.  For an extension column the result is
\* num / other, built from two new Series without name and labels: the
\* missing slots take the value and 0 / 0 brings NaN back.
FillNullFunc(ser, value) ==
  IF is_extension_array_dtype(ser.dtype)
  THEN Ser(NoneName, RangeIndex(Len(ser.vals)),
           [i \in DOMAIN ser.vals |->
              IF NpIsNan(ser)[i] THEN NaN
              ELSE IF ser.vals[i] = NA THEN value ELSE ser.vals[i]],
           ser.dtype)
  ELSE FillNa(ser, value)

\* ser.isin(other): values of a different kind are never equal, and a
\* missing value is found among values with a missing one
IsIn(ser, other) ==
  IF ~IsSeries(other) THEN Err("TypeError")   \* only list-like objects are allowed
  ELSE Ser(ser.name, ser.index,
           [i \in DOMAIN ser.vals |->
              B(/\ IsNumeric(ser.dtype) = IsNumeric(other.dtype)
                /\ \E j \in DOMAIN other.vals : other.vals[j] = ser.vals[i])],
           "bool")

\* func(lhs, rhs) for a recorded func.  Every func calls a Series method on
\* its first argument, so a first argument that is not a Series (the scalar
\* a reduction produced) is an AttributeError.
Apply(func, lhs, rhs) ==
  IF ~IsSeries(lhs) THEN Err("AttributeError")
  ELSE CASE func.op \in Comparisons -> Compare(func.op, lhs, rhs)
         [] func.op \in Arithmetic -> Arith(func.op, lhs, rhs)
         [] func.op = "filter" -> Loc(lhs, rhs)
         [] func.op = "get_rows" -> ILocReset(lhs, rhs)
         [] func.op = "sort" -> SortValues(lhs, func.v = 1)
         [] func.op = "sorted_indices" -> SortedIndices(lhs, func.v = 1)
         [] func.op = "sum" -> Scalar(SumVals(lhs.vals), "int64")
         [] func.op = "cumulative_sum" -> CumSum(lhs)
         [] func.op = "fill_null" -> FillNullFunc(lhs, func.v)
         [] func.op = "fill_nan" -> FillNanFunc(lhs, func.v)
         [] func.op = "is_null" -> IsNa(lhs)
         [] func.op = "is_nan" -> IsNanFunc(lhs)
         [] func.op = "is_in" -> IsIn(lhs, rhs)
         [] func.op = "rename" -> [lhs EXCEPT !.name = func.name]

(***************************************************************************)
(* pandas DataFrame values: [index, columns], a column being               *)
(* [name, vals, dtype].                                                    *)
(***************************************************************************)
DataFrameOf(index, columns) == [index |-> index, columns |-> columns]
EmptyDataFrame == DataFrameOf(<<>>, <<>>)
ColumnNames(df) == [i \in DOMAIN df.columns |-> df.columns[i].name]
SeriesOf(df, i) == Ser(df.columns[i].name, df.index, df.columns[i].vals, df.columns[i].dtype)
AsColumn(ser, name) == [name |-> name, vals |-> ser.vals, dtype |-> ser.dtype]

\* df.loc[:, name]
LocColumn(df, name) ==
  IF \E i \in DOMAIN df.columns : df.columns[i].name = name
  THEN SeriesOf(df, CHOOSE i \in DOMAIN df.columns : df.columns[i].name = name)
  ELSE Err("KeyError")

\* pd.concat(objs, axis=1) of Series: the rows are the union of the labels
\* (first appearance), every Series is reindexed to it, and an unnamed Series
\* gets its position among the unnamed ones as label.
ConcatSeries(objs) ==
  IF objs = <<>> THEN Err("ValueError")       \* No objects to concatenate
  ELSE IF \E i \in DOMAIN objs : ~IsSeries(objs[i]) THEN Err("TypeError")
  ELSE
    LET Idx[i \in 1..Len(objs)] ==
          IF i = 1 THEN objs[1].index ELSE UnionIndex(Idx[i - 1], objs[i].index)
        index == Idx[Len(objs)]
        Unnamed(i) == Cardinality({j \in 1..(i - 1) : objs[j].name = NoneName})
        Label(i) == IF objs[i].name = NoneName THEN IntName(Unnamed(i)) ELSE objs[i].name
        Dtype(i) == IF \E j \in DOMAIN index : Reindex(objs[i], index)[j] = NA
                       /\ objs[i].dtype \in {"int64", "bool"}
                    THEN (IF objs[i].dtype = "bool" THEN "object" ELSE "float64")
                    ELSE objs[i].dtype
    IN [kind |-> "frame",
        df |-> DataFrameOf(index,
                 [i \in DOMAIN objs |->
                    [name |-> Label(i), vals |-> Reindex(objs[i], index), dtype |-> Dtype(i)]])]

\* the Series of a DataFrame, as pd.concat sees a DataFrame argument
SeriesList(df) == [i \in DOMAIN df.columns |-> SeriesOf(df, i)]

(***************************************************************************)
(* PandasExpression.                                                       *)
(* An Expression object is [root_names, output_name, base_call, calls]     *)
(* where calls is the identity of a list object in `lists`; a list holds   *)
(* the recorded steps [func, lhs, rhs], lhs and rhs being operands.        *)
(* base_call is the closure given to the constructor: "loc" for            *)
(* lambda df: df.loc[:, name], "column" for the closure over a             *)
(* PandasColumn made by _to_expression, "none" when absent.                *)
(***************************************************************************)
BaseCall(kind, name, id) == [kind |-> kind, name |-> name, id |-> id]
NoBaseCall == BaseCall("none", "", 0)

Heap == [exprs |-> exprs, lists |-> lists, cols |-> cols]

\* PandasExpression.__init__; extra_calls is the identity of the list
\* passed in, 0 for None.  `extra_calls or []` makes a fresh empty list
\* when the argument is None or an empty list.
PandasExpression(H, root_names, output_name, base_call, extra_calls) ==
  LET fresh == extra_calls = 0 \/ (extra_calls # 0 /\ H.lists[extra_calls] = <<>>)
      lists1 == IF fresh THEN Append(H.lists, <<>>) ELSE H.lists
      id == IF fresh THEN Len(lists1) ELSE extra_calls
  IN [H EXCEPT !.lists = lists1,
               !.exprs = Append(H.exprs,
                  [root_names |-> root_names, output_name |-> output_name,
                   base_call |-> base_call, calls |-> id])]

\* the Expression the last constructor call made
Newest(H) == Len(H.exprs)

\* the same step recorded by appending to the receiver's own list and
\* sharing that list with the new Expression
record_call_inplace(H, self, func, rhs, output_name) ==
  LET l == H.exprs[self].calls
      H1 == [H EXCEPT !.lists[l] = Append(@, [func |-> func, lhs |-> ExprRef(self), rhs |-> rhs])]
  IN PandasExpression(H1, H.exprs[self].root_names,
       IF output_name \in {NoneName, ""} THEN H.exprs[self].output_name ELSE output_name,
       NoBaseCall, l)

\* PandasExpression._record_call; output_name is NoneName for None
record_call(H, self, func, rhs, output_name) ==
  LET calls == Append(H.lists[H.exprs[self].calls],
                      [func |-> func, lhs |-> ExprRef(self), rhs |-> rhs])
      H1 == [H EXCEPT !.lists = Append(@, calls)]
  IN PandasExpression(H1, H.exprs[self].root_names,
       IF output_name \in {NoneName, ""} THEN H.exprs[self].output_name ELSE output_name,
       NoBaseCall, Len(H1.lists))

\* PandasExpression.rename
ExpressionRename(H, self, name) ==
  record_call(H, self, FnName("rename", name), None, NoneName)

\* the other chaining methods of PandasExpression: each records one step
Chain(H, self, func, rhs) == record_call(H, self, func, rhs, NoneName)

\* dataframe_api_compat.pandas_standard.col(name): the Expression of a bare
\* column reference
col(H, name) ==
  PandasExpression(H, <<name>>, name, BaseCall("loc", name, 0), 0)

\* PandasColumn._to_expression: output_name is the Column's name now, the
\* closure reads self.column and self.name when it is called
to_expression(H, c) ==
  PandasExpression(H, <<>>, H.cols[c].name, BaseCall("column", "", c), 0)

\* expression._base_call(self.dataframe)
CallBase(H, base_call, df) ==
  CASE base_call.kind = "loc" -> LocColumn(df, base_call.name)
    [] base_call.kind = "column" ->
         [H.cols[base_call.id].series EXCEPT !.name = H.cols[base_call.id].name]
    [] OTHER -> Err("TypeError")      \* 'NoneType' object is not callable

\* PandasDataFrame._resolve_expression and PandasEagerFrame._resolve_expression
\* (the two are the same code).  The loop runs every recorded step, resolving
\* the step's own lhs and rhs against the same DataFrame, and returns what
\* the last step gave; an exception in any step ends the resolution.
RECURSIVE resolve_expression(_, _, _, _)
\* a resolution that stops after the first recorded step
resolve_first_step(H, df, expression, depth) ==
  IF depth > RecursionLimit THEN Err("RecursionError")
  ELSE IF expression.kind = "column" THEN H.cols[expression.id].series
  ELSE IF expression.kind # "expr" THEN expression
  ELSE
    LET e == H.exprs[expression.id]
        calls == H.lists[e.calls]
        lhs == resolve_expression(H, df, calls[1].lhs, depth + 1)
        rhs == resolve_expression(H, df, calls[1].rhs, depth + 1)
    IN IF calls = <<>> THEN CallBase(H, e.base_call, df)
       ELSE IF IsErr(lhs) THEN lhs
       ELSE IF IsErr(rhs) THEN rhs
       ELSE Apply(calls[1].func, lhs, rhs)

resolve_expression(H, df, expression, depth) ==
  IF depth > RecursionLimit THEN Err("RecursionError")
  ELSE IF expression.kind = "column" THEN H.cols[expression.id].series
  ELSE IF expression.kind # "expr" THEN expression
  ELSE
    LET e == H.exprs[expression.id]
        calls == H.lists[e.calls]
        Loop[i \in 1..Len(calls)] ==
          IF i > 1 /\ IsErr(Loop[i - 1]) THEN Loop[i - 1]
          ELSE LET lhs == resolve_expression(H, df, calls[i].lhs, depth + 1)
                   rhs == resolve_expression(H, df, calls[i].rhs, depth + 1)
               IN IF IsErr(lhs) THEN lhs
                  ELSE IF IsErr(rhs) THEN rhs
                  ELSE Apply(calls[i].func, lhs, rhs)
    IN IF calls = <<>> THEN CallBase(H, e.base_call, df)
       ELSE Loop[Len(calls)]

Resolve(H, df, expression) == resolve_expression(H, df, expression, 0)

\* What a resolution that raises no exception runs: the number of func(lhs,
\* rhs) applications and of _base_call invocations of
\* _resolve_expression(expression).  The loop resolves the lhs and the rhs
\* of every recorded step anew, and the lhs of step i is the Expression
\* that holds the steps before i.
RECURSIVE resolution_work(_, _, _)
resolution_work(H, expression, depth) ==
  IF expression.kind # "expr" \/ depth > RecursionLimit
  THEN [applications |-> 0, base_calls |-> 0]
  ELSE
    LET calls == H.lists[H.exprs[expression.id].calls]
        Loop[i \in 0..Len(calls)] ==
          IF i = 0 THEN [applications |-> 0, base_calls |-> 0]
          ELSE LET lhs == resolution_work(H, calls[i].lhs, depth + 1)
                   rhs == resolution_work(H, calls[i].rhs, depth + 1)
               IN [applications |->
                     Loop[i - 1].applications + lhs.applications + rhs.applications + 1,
                   base_calls |-> Loop[i - 1].base_calls + lhs.base_calls + rhs.base_calls]
    IN IF calls = <<>> THEN [applications |-> 0, base_calls |-> 1]
       ELSE Loop[Len(calls)]

(***************************************************************************)
(* Constructors of PandasColumn, PandasDataFrame and PandasEagerFrame.     *)
(* Each returns Err(...) for the exception it raises, or the object.       *)
(***************************************************************************)
\* PandasColumn.__init__
PandasColumn(column, api_version) ==
  IF column.name # NoneName /\ ~IsStr(column.name) THEN Err("ValueError")
  ELSE
    LET name == IF column.name = NoneName THEN "" ELSE column.name
        series == IF IsCanonical(column.index)
                  THEN [column EXCEPT !.name = name]
                  ELSE [column EXCEPT !.name = name, !.index = RangeIndex(Len(column.index))]
    IN IF api_version \notin SUPPORTED_VERSIONS THEN Err("ValueError")
       ELSE [kind |-> "pcolumn", name |-> name, series |-> series,
             api_version |-> api_version]

\* the fields of a PandasColumn object
ColumnObject(c) == [name |-> c.name, series |-> c.series, api_version |-> c.api_version]

\* the check for duplicates alone
validate_columns_unique_only(columns) ==
  IF \E i, j \in DOMAIN columns : i # j /\ columns[i] = columns[j] THEN "ValueError"
  ELSE "ok"

\* PandasDataFrame._validate_columns / PandasEagerFrame._validate_columns:
\* the exception raised, "ok" when none
validate_columns(columns) ==
  IF \E i, j \in DOMAIN columns : i # j /\ columns[i] = columns[j] THEN "ValueError"
  ELSE IF \E i \in DOMAIN columns : ~IsStr(columns[i]) THEN "TypeError"
  ELSE "ok"

\* PandasDataFrame.__init__ / PandasEagerFrame.__init__ up to the choice of
\* the stored frame: the validated DataFrame with a canonical index
InitDataFrame(dataframe, api_version) ==
  IF validate_columns(ColumnNames(dataframe)) # "ok"
  THEN Err(validate_columns(ColumnNames(dataframe)))
  ELSE IF api_version \notin SUPPORTED_VERSIONS THEN Err("ValueError")
  ELSE [kind |-> "frame",
        df |-> IF IsCanonical(dataframe.index) THEN dataframe
               ELSE [dataframe EXCEPT !.index = RangeIndex(Len(dataframe.index))]]

\* an entry of select's `names`: a str or an operand
StrEntry(name) == [kind |-> "str", name |-> name]

\* PandasDataFrame.select / PandasEagerFrame.select on the DataFrame df:
\* the new Table's DataFrame, or the exception
select(H, df, api_version, names) ==
  LET columns == [i \in DOMAIN names |->
                    IF names[i].kind = "str" THEN LocColumn(df, names[i].name)
                    ELSE Resolve(H, df, names[i])]
  IN IF \E i \in DOMAIN columns : IsErr(columns[i])
     THEN columns[CHOOSE i \in DOMAIN columns :
                    IsErr(columns[i]) /\ \A j \in 1..(i - 1) : ~IsErr(columns[j])]
     ELSE LET c == ConcatSeries(columns)
          IN IF IsErr(c) THEN c ELSE InitDataFrame(c.df, api_version)

\* PandasEagerFrame.get_column_by_name
get_column_by_name(df, api_version, name) ==
  LET ser == LocColumn(df, name)
  IN IF IsErr(ser) THEN ser ELSE PandasColumn(ser, api_version)

(***************************************************************************)
(* Calls of PandasExpression methods by name.  A call is                   *)
(* [method, rhs, name, v]: the method, its operand argument, and the name  *)
(* or value argument of the methods that take one.                         *)
(***************************************************************************)
Call(method, rhs) == [method |-> method, rhs |-> rhs, name |-> "", v |-> 0]
CallName(method, name) == [method |-> method, rhs |-> None, name |-> name, v |-> 0]
CallVal(method, v) == [method |-> method, rhs |-> None, name |-> "", v |-> v]

BinaryMethods == Comparisons \cup Arithmetic \cup {"filter", "get_rows", "is_in"}
UnaryMethods == {"sum", "cumulative_sum", "is_null", "is_nan"}
ValueMethods == {"sort", "sorted_indices", "fill_null", "fill_nan"}
ExpressionMethods == BinaryMethods \cup UnaryMethods \cup ValueMethods \cup {"rename"}

\* getattr(expression, call.method)(...)
ExpressionCall(H, self, call) ==
  CASE call.method = "rename" -> ExpressionRename(H, self, call.name)
    [] call.method \in BinaryMethods -> Chain(H, self, Fn(call.method), call.rhs)
    [] call.method \in ValueMethods -> Chain(H, self, FnVal(call.method, call.v), None)
    [] call.method \in UnaryMethods -> Chain(H, self, Fn(call.method), None)

\* PandasColumn._reuse_expression_implementation: the PandasColumn made, or
\* the exception.  self.name is read after the Expression is resolved.
reuse_expression_implementation(H, self, call) ==
  IF call.method \notin ExpressionMethods THEN Err("AttributeError")
  ELSE
    LET api == H.cols[self].api_version
        H1 == to_expression(H, self)
        H2 == ExpressionCall(H1, Newest(H1), call)
        selected == select(H2, EmptyDataFrame, api, <<ExprRef(Newest(H2))>>)
    IN IF IsErr(selected) THEN selected
       ELSE get_column_by_name(selected.df, api, H.cols[self].name)

\* the method of PandasExpression that PandasColumn.__eq__ .. __lt__ names
ColumnComparisonMethod(op) ==
  CASE op = "eq" -> "eq"
    [] op = "ne" -> "ne"
    [] op = "ge" -> "ge"
    [] op = "gt" -> "lt"
    [] op = "le" -> "le"
    [] op = "lt" -> "lt"

\* a pair of results, as __divmod__ returns it
Pair(quotient, remainder) == [kind |-> "pair", quotient |-> quotient, remainder |-> remainder]

\* PandasExpression.__divmod__: three Expressions are made, self // other,
\* quotient * other and self - quotient * other; the first and the third
\* are returned
expression_divmod(H, self, other) ==
  LET H1 == Chain(H, self, Fn("floordiv"), other)
      quotient == Newest(H1)
      H2 == Chain(H1, quotient, Fn("mul"), other)
      H3 == Chain(H2, self, Fn("sub"), ExprRef(Newest(H2)))
  IN [heap |-> H3, result |-> Pair(ExprRef(quotient), ExprRef(Newest(H3)))]

\* PandasColumn.__divmod__: quotient = self // other and
\* remainder = self - quotient * other, each through
\* _reuse_expression_implementation; the result is the pair of PandasColumns
\* or the first exception
column_divmod(H, self, other) ==
  LET Bind(x, F(_)) == CHOOSE r \in {F(v) : v \in {x}} : TRUE
      WithColumn(G, column) == [G EXCEPT !.cols = Append(@, ColumnObject(column))]
      Remainder(quotient, product) ==
        Bind(WithColumn(H, product),
             LAMBDA H2 : Bind(reuse_expression_implementation(
                                H2, self, Call("sub", ColRef(Len(H2.cols)))),
                              LAMBDA remainder : IF IsErr(remainder) THEN remainder
                                                 ELSE Pair(quotient, remainder)))
      Product(quotient) ==
        Bind(WithColumn(H, quotient),
             LAMBDA H1 : Bind(reuse_expression_implementation(
                                H1, Len(H1.cols), Call("mul", other)),
                              LAMBDA product : IF IsErr(product) THEN product
                                               ELSE Remainder(quotient, product)))
  IN Bind(reuse_expression_implementation(H, self, Call("floordiv", other)),
          LAMBDA quotient : IF IsErr(quotient) THEN quotient ELSE Product(quotient))

(***************************************************************************)
(* The Table operations of PandasDataFrame and PandasEagerFrame (the two   *)
(* classes carry the same code for them).  An operation on the DataFrame   *)
(* df gives Err(...) or [kind |-> "frame", df |-> the new DataFrame].      *)
(***************************************************************************)
Frame(df) == [kind |-> "frame", df |-> df]
HasColumn(df, name) == \E i \in DOMAIN df.columns : df.columns[i].name = name
ColumnPos(df, name) == CHOOSE i \in DOMAIN df.columns : df.columns[i].name = name

\* the rows at the given positions, under the given labels
TakeRows(df, positions, index) ==
  DataFrameOf(index,
    [i \in DOMAIN df.columns |->
       [df.columns[i] EXCEPT !.vals = [k \in DOMAIN positions |-> df.columns[i].vals[positions[k]]]]])

\* df.loc[mask]: rows are selected as Series.loc selects elements; a single
\* label gives one row as a Series, not a DataFrame
LocRows(df, mask) ==
  LET probe == Ser("", df.index, [i \in DOMAIN df.index |-> i], "int64")
      sel == Loc(probe, mask)
  IN IF IsErr(sel) THEN sel
     ELSE IF sel.kind = "scalar" THEN [kind |-> "row"]
     ELSE Frame(TakeRows(df, sel.vals, sel.index))

\* PandasDataFrame.filter / PandasEagerFrame.filter
filter(H, df, api_version, mask) ==
  LET m == Resolve(H, df, mask)
      r == LocRows(df, m)
  IN IF IsErr(m) THEN m
     ELSE IF IsErr(r) THEN r
     ELSE IF r.kind = "row" THEN Err("AttributeError")   \* a Series has no .columns
     ELSE InitDataFrame(r.df, api_version)

\* PandasDataFrame.insert_column / PandasEagerFrame.insert_column
insert_column(H, df, api_version, value) ==
  LET to_insert == Resolve(H, df, value)
      c == ConcatSeries(SeriesList(df) \o <<to_insert>>)
  IN IF IsErr(to_insert) THEN to_insert
     ELSE IF IsErr(c) THEN c
     ELSE InitDataFrame(c.df, api_version)

\* PandasDataFrame.drop_column; label is a str in every call made here
drop_column(df, api_version, label) ==
  IF ~IsStr(label) THEN Err("TypeError")
  ELSE IF ~HasColumn(df, label) THEN Err("KeyError")
  ELSE InitDataFrame(
         [df EXCEPT !.columns = SelectPos(df.columns,
                                  {i \in DOMAIN df.columns : df.columns[i].name # label})],
         api_version)

\* PandasDataFrame.rename_columns with the mapping {old: new}
rename_columns(df, api_version, old, new) ==
  InitDataFrame(
    [df EXCEPT !.columns = [i \in DOMAIN df.columns |->
       IF df.columns[i].name = old THEN [df.columns[i] EXCEPT !.name = new]
       ELSE df.columns[i]]],
    api_version)

\* row i comes before row j in df.sort_values(keys, ascending=ascending):
\* keys compared in order, missing values last, ties in the original order
RowBefore(df, keys, ascending, i, j) ==
  LET V(k, r) == df.columns[ColumnPos(df, keys[k])].vals[r]
      differ == {k \in DOMAIN keys : V(k, i) # V(k, j)}
  IN IF differ = {} THEN i < j
     ELSE LET k == CHOOSE x \in differ : \A y \in differ : x <= y
          IN IF V(k, i) = NA THEN FALSE
             ELSE IF V(k, j) = NA THEN TRUE
             ELSE IF ascending THEN V(k, i) < V(k, j) ELSE V(k, i) > V(k, j)

SortedPositions(df, keys, ascending) ==
  LET n == Len(df.index)
      Rank(i) == Cardinality({j \in 1..n : RowBefore(df, keys, ascending, j, i)}) + 1
  IN [r \in 1..n |-> CHOOSE i \in 1..n : Rank(i) = r]

\* PandasDataFrame.sort; keys = <<>> stands for None (all columns).
\* nulls_position is accepted and not passed on to sort_values.
sort(df, api_version, keys, ascending, nulls_position) ==
  LET ks == IF keys = <<>> THEN ColumnNames(df) ELSE keys
  IN IF \E k \in DOMAIN ks : ~HasColumn(df, ks[k]) THEN Err("KeyError")
     ELSE LET pos == SortedPositions(df, ks, ascending)
          IN InitDataFrame(TakeRows(df, pos, [r \in DOMAIN pos |-> df.index[pos[r]]]),
                           api_version)

\* PandasDataFrame.is_null: isna() of every column, concatenated
is_null(df, api_version) ==
  LET c == ConcatSeries([i \in DOMAIN df.columns |-> IsNa(SeriesOf(df, i))])
  IN IF IsErr(c) THEN c ELSE InitDataFrame(c.df, api_version)

\* PandasDataFrame.is_nan: np.isnan for an extension column, isna() otherwise
is_nan(df, api_version) ==
  LET c == ConcatSeries([i \in DOMAIN df.columns |-> IsNanFunc(SeriesOf(df, i))])
  IN IF IsErr(c) THEN c ELSE InitDataFrame(c.df, api_version)

\* PandasDataFrame.fill_nan: every column is copied and its NaN slots are
\* set; np.isnan is not defined on object columns
fill_nan(df, api_version, value) ==
  IF \E i \in DOMAIN df.columns : IsErr(FillNanFunc(SeriesOf(df, i), value))
  THEN Err("TypeError")
  ELSE InitDataFrame(
         [df EXCEPT !.columns = [i \in DOMAIN df.columns |->
            [df.columns[i] EXCEPT !.vals = FillNanFunc(SeriesOf(df, i), value).vals]]],
         api_version)

\* PandasDataFrame.sum: self.dataframe.sum().to_frame().T
sum(df, api_version) ==
  InitDataFrame(
    DataFrameOf(<<0>>,
      [i \in DOMAIN df.columns |->
         [name |-> df.columns[i].name, vals |-> <<SumVals(df.columns[i].vals)>>,
          dtype |-> IF df.columns[i].dtype = "bool" THEN "int64" ELSE df.columns[i].dtype]]),
    api_version)

\* left.merge(right, left_on=lk, right_on=rk, how=how): the pairs of row
\* positions (0 for no row) in result order
MergePairs(left, right, lk, rk, how) ==
  LET lv == left.columns[ColumnPos(left, lk)].vals
      rv == right.columns[ColumnPos(right, rk)].vals
      Matches(i) == SelectPos([j \in DOMAIN rv |-> <<i, j>>], {j \in DOMAIN rv : rv[j] = lv[i]})
      Row(i) == IF Matches(i) = <<>> /\ how # "inner" THEN <<<<i, 0>>>> ELSE Matches(i)
      L[i \in 0..Len(lv)] == IF i = 0 THEN <<>> ELSE L[i - 1] \o Row(i)
      rightOnly == SelectPos([j \in DOMAIN rv |-> <<0, j>>],
                             {j \in DOMAIN rv : \A i \in DOMAIN lv : lv[i] # rv[j]})
      pairs == IF how = "outer" THEN L[Len(lv)] \o rightOnly ELSE L[Len(lv)]
      Key(p) == IF p[1] # 0 THEN lv[p[1]] ELSE rv[p[2]]
      \* how="outer" sorts the keys; the sort is stable
      Rank(a) == Cardinality({b \in DOMAIN pairs :
                    \/ Key(pairs[b]) < Key(pairs[a])
                    \/ (Key(pairs[b]) = Key(pairs[a]) /\ b < a)}) + 1
  IN IF how = "outer"
     THEN [r \in DOMAIN pairs |-> pairs[CHOOSE a \in DOMAIN pairs : Rank(a) = r]]
     ELSE pairs

WithNA(dtype, vals) ==
  IF (\E k \in DOMAIN vals : vals[k] = NA) /\ dtype \in {"int64", "bool"}
  THEN (IF dtype = "bool" THEN "object" ELSE "float64")
  ELSE dtype

merge(left, right, lk, rk, how) ==
  IF ~HasColumn(left, lk) \/ ~HasColumn(right, rk) THEN Err("KeyError")
  ELSE
    LET pairs == MergePairs(left, right, lk, rk, how)
        lnames == SeqToSet(ColumnNames(left))
        rnames == SeqToSet(ColumnNames(right))
        shared == IF lk = rk THEN {lk} ELSE {}
        clash == (lnames \cap rnames) \ shared
        rkeep == SelectPos(right.columns,
                   {i \in DOMAIN right.columns : right.columns[i].name \notin shared})
        LVal(c, p) == IF p[1] # 0 THEN c.vals[p[1]]
                      ELSE IF c.name \in shared
                      THEN right.columns[ColumnPos(right, rk)].vals[p[2]]
                      ELSE NA
        RVal(c, p) == IF p[2] # 0 THEN c.vals[p[2]] ELSE NA
        LCol(c) == LET vals == [k \in DOMAIN pairs |-> LVal(c, pairs[k])]
                   IN [name |-> IF c.name \in clash THEN c.name \o "_x" ELSE c.name,
                       vals |-> vals, dtype |-> WithNA(c.dtype, vals)]
        RCol(c) == LET vals == [k \in DOMAIN pairs |-> RVal(c, pairs[k])]
                   IN [name |-> IF c.name \in clash THEN c.name \o "_y" ELSE c.name,
                       vals |-> vals, dtype |-> WithNA(c.dtype, vals)]
    IN Frame(DataFrameOf(RangeIndex(Len(pairs)),
               [i \in DOMAIN left.columns |-> LCol(left.columns[i])]
                 \o [i \in DOMAIN rkeep |-> RCol(rkeep[i])]))

JoinKinds == {"left", "inner", "outer"}

\* PandasDataFrame.join / PandasEagerFrame.join.  `other` is the object
\* passed: a Table [kind |-> "table", eager, df] or any other operand.
\* The assert accepts a PandasDataFrame only.
join_assert_first(df, api_version, other, left_on, right_on, how) ==
  IF other.kind # "table" THEN Err("AssertionError")
  ELSE IF other.eager THEN Err("AssertionError")
  ELSE IF how \notin JoinKinds THEN Err("ValueError")
  ELSE LET m == merge(df, other.df, left_on, right_on, how)
       IN IF IsErr(m) THEN m ELSE InitDataFrame(m.df, api_version)

join(df, api_version, other, left_on, right_on, how) ==
  IF how \notin JoinKinds THEN Err("ValueError")
  ELSE IF other.kind # "table" THEN Err("AssertionError")
  ELSE IF other.eager THEN Err("AssertionError")
  ELSE LET m == merge(df, other.df, left_on, right_on, how)
       IN IF IsErr(m) THEN m ELSE InitDataFrame(m.df, api_version)

\* PandasDataFrame.groupby: the exception of the key check, "ok" when none
groupby(df, keys) ==
  IF \E k \in DOMAIN keys : ~HasColumn(df, keys[k]) THEN "KeyError" ELSE "ok"

\* df.groupby(keys, sort=False, as_index=False).sum(): one row per key in
\* order of first appearance, rows with a missing key dropped, the keys
\* first and then the other columns
GroupedSum(df, keys) ==
  LET n == Len(df.index)
      KeyOf(i) == [k \in DOMAIN keys |-> df.columns[ColumnPos(df, keys[k])].vals[i]]
      rows == {i \in 1..n : \A k \in DOMAIN keys : KeyOf(i)[k] # NA}
      firsts == SelectPos([i \in 1..n |-> i],
                          {i \in rows : \A j \in rows : j < i => KeyOf(j) # KeyOf(i)})
      others == SelectPos(df.columns,
                  {c \in DOMAIN df.columns : df.columns[c].name \notin SeqToSet(keys)})
      Members(g) == {i \in rows : KeyOf(i) = KeyOf(firsts[g])}
      KeyColumn(k) == [df.columns[ColumnPos(df, keys[k])] EXCEPT
                         !.vals = [g \in DOMAIN firsts |-> KeyOf(firsts[g])[k]]]
      SumColumn(c) == [name |-> c.name,
                       vals |-> [g \in DOMAIN firsts |->
                                   SumVals(SelectPos(c.vals, Members(g)))],
                       dtype |-> IF c.dtype = "bool" THEN "int64" ELSE c.dtype]
  IN DataFrameOf(RangeIndex(Len(firsts)),
       [k \in DOMAIN keys |-> KeyColumn(k)] \o [c \in DOMAIN others |-> SumColumn(others[c])])

\* PandasGroupBy._validate_result: the exception, "ok" when none
validate_result(df, result) ==
  IF SeqToSet(ColumnNames(df)) \ SeqToSet(ColumnNames(result)) # {}
  THEN "AssertionError" ELSE "ok"

\* table.groupby(keys).sum()
groupby_sum(df, api_version, keys) ==
  IF groupby(df, keys) # "ok" THEN Err(groupby(df, keys))
  ELSE LET result == GroupedSum(df, keys)
       IN IF validate_result(df, result) # "ok" THEN Err(validate_result(df, result))
          ELSE InitDataFrame(result, api_version)

\* The aggregations of PandasGroupBy other than size.  Missing values are
\* skipped.  The results of mean, median, var and std are floats: they are
\* kept to the integer below (floor), var and std with correction 1 and
\* missing for a group of fewer than two values.
Aggregations == {"any", "all", "min", "max", "sum", "prod", "median", "mean", "std", "var"}

ProdVals(vals) ==
  LET F[i \in 0..Len(vals)] == IF i = 0 THEN 1 ELSE F[i - 1] * vals[i]
  IN F[Len(vals)]

\* the value of rank r (1 = smallest) among vals
Ranked(vals, r) ==
  CHOOSE x \in SeqToSet(vals) :
    /\ Cardinality({i \in DOMAIN vals : vals[i] < x}) < r
    /\ r <= Cardinality({i \in DOMAIN vals : vals[i] <= x})

\* the largest integer whose square is at most v
FloorSqrt(v) == CHOOSE r \in 0..v : r * r <= v /\ (r + 1) * (r + 1) > v

AggVal(agg, vals) ==
  LET xs == SelectPos(vals, {i \in DOMAIN vals : vals[i] # NA})
      n == Len(xs)
      S == SumVals(xs)
      SS == SumVals([i \in DOMAIN xs |-> xs[i] * xs[i]])
      variance == FloorDivVal(n * SS - S * S, n * (n - 1))
  IN CASE agg = "sum" -> S
       [] agg = "prod" -> ProdVals(xs)
       [] agg = "any" -> B(\E i \in DOMAIN xs : xs[i] # 0)
       [] agg = "all" -> B(\A i \in DOMAIN xs : xs[i] # 0)
       [] agg = "min" -> IF n = 0 THEN NA ELSE Ranked(xs, 1)
       [] agg = "max" -> IF n = 0 THEN NA ELSE Ranked(xs, n)
       [] agg = "mean" -> IF n = 0 THEN NA ELSE FloorDivVal(S, n)
       [] agg = "median" ->
            IF n = 0 THEN NA
            ELSE FloorDivVal(Ranked(xs, (n + 1) \div 2) + Ranked(xs, n \div 2 + 1), 2)
       [] agg = "var" -> IF n < 2 THEN NA ELSE variance
       [] agg = "std" -> IF n < 2 THEN NA ELSE FloorSqrt(variance)

AggDtype(agg, dtype) ==
  CASE agg \in {"any", "all"} -> "bool"
    [] agg \in {"min", "max"} -> dtype
    [] agg \in {"sum", "prod"} -> IF dtype = "bool" THEN "int64" ELSE dtype
    [] OTHER -> "float64"

\* df.groupby(keys, sort=False, as_index=False): the rows of each group, in
\* order of first appearance of its key; rows with a missing key are dropped
Groups(df, keys) ==
  LET n == Len(df.index)
      KeyOf(i) == [k \in DOMAIN keys |-> df.columns[ColumnPos(df, keys[k])].vals[i]]
      rows == {i \in 1..n : \A k \in DOMAIN keys : KeyOf(i)[k] # NA}
      firsts == SelectPos([i \in 1..n |-> i],
                          {i \in rows : \A j \in rows : j < i => KeyOf(j) # KeyOf(i)})
  IN [g \in DOMAIN firsts |-> {i \in rows : KeyOf(i) = KeyOf(firsts[g])}]

\* the key columns of an aggregated DataFrame: one row per group
GroupKeyColumns(df, keys) ==
  LET groups == Groups(df, keys)
  IN [k \in DOMAIN keys |->
        [df.columns[ColumnPos(df, keys[k])] EXCEPT
           !.vals = [g \in DOMAIN groups |->
                       df.columns[ColumnPos(df, keys[k])].vals[
                         CHOOSE i \in groups[g] : \A j \in groups[g] : i <= j]]]]

\* self.grouped.<agg>(): the keys first and then every other column,
\* aggregated per group
Grouped(df, keys, agg) ==
  LET groups == Groups(df, keys)
      others == SelectPos(df.columns,
                  {c \in DOMAIN df.columns : df.columns[c].name \notin SeqToSet(keys)})
      AggColumn(c) == [name |-> c.name,
                       vals |-> [g \in DOMAIN groups |->
                                   AggVal(agg, SelectPos(c.vals, groups[g]))],
                       dtype |-> AggDtype(agg, c.dtype)]
  IN DataFrameOf(RangeIndex(Len(groups)),
       GroupKeyColumns(df, keys) \o [c \in DOMAIN others |-> AggColumn(others[c])])

\* self.grouped.size(): the keys and one column "size", the number of rows
\* of each group
GroupedSize(df, keys) ==
  LET groups == Groups(df, keys)
  IN DataFrameOf(RangeIndex(Len(groups)),
       Append(GroupKeyColumns(df, keys),
              [name |-> "size", vals |-> [g \in DOMAIN groups |-> Cardinality(groups[g])],
               dtype |-> "int64"]))

\* a check of booleanness that accepts every column
validate_booleanness_never(df, keys) == "ok"

\* PandasGroupBy._validate_booleanness: the exception, "ok" when none
validate_booleanness(df, keys) ==
  IF \E c \in DOMAIN df.columns :
       df.columns[c].name \notin SeqToSet(keys) /\ df.columns[c].dtype # "bool"
  THEN "ValueError" ELSE "ok"

\* table.groupby(keys).<agg>() for any .. var, and table.groupby(keys).size()
groupby_aggregate(df, api_version, keys, agg) ==
  IF groupby(df, keys) # "ok" THEN Err(groupby(df, keys))
  ELSE IF agg = "size" THEN InitDataFrame(GroupedSize(df, keys), api_version)
  ELSE IF agg \in {"any", "all"} /\ validate_booleanness(df, keys) # "ok"
  THEN Err(validate_booleanness(df, keys))
  ELSE LET result == Grouped(df, keys, agg)
       IN IF validate_result(df, result) # "ok" THEN Err(validate_result(df, result))
          ELSE InitDataFrame(result, api_version)

\* The Column transformations that name an Expression method to reuse:
\* cumulative_sum .. cumulative_min pass "cumsum" .. "cummin", names that
\* PandasExpression does not define; unique_indices passes its own name,
\* and PandasExpression.unique_indices reads self.column, an attribute that
\* an Expression does not have (AttributeError in both cases).
ColumnTransformations ==
  {"cumulative_sum", "cumulative_prod", "cumulative_max", "cumulative_min", "unique_indices"}
ReusedName(method) ==
  CASE method = "cumulative_sum" -> "cumsum"
    [] method = "cumulative_prod" -> "cumprod"
    [] method = "cumulative_max" -> "cummax"
    [] method = "cumulative_min" -> "cummin"
    [] method = "unique_indices" -> "unique_indices"

column_transformation(H, self, method) ==
  reuse_expression_implementation(H, self, Call(ReusedName(method), None))

\* PandasColumn.filter: PandasDataFrame(api_version=...) is called first and
\* lacks the dataframe argument
column_filter(H, self, mask) == Err("TypeError")

\* Python's slice(start, stop, step).indices(n) and the range it denotes:
\* the positions (from 0) of obj.iloc[start:stop:step] on n rows.  A bound
\* is None or a Scalar; a negative bound counts from the end, and every
\* bound is clamped to the rows there are.
SlicePositions(n, start, stop, step) ==
  LET st == IF step = None THEN 1 ELSE step.v
      Clamp(b, lo, hi) ==
        LET v == IF b.v < 0 THEN b.v + n ELSE b.v
        IN IF v < lo THEN lo ELSE IF v > hi THEN hi ELSE v
      first == IF st > 0 THEN (IF start = None THEN 0 ELSE Clamp(start, 0, n))
               ELSE (IF start = None THEN n - 1 ELSE Clamp(start, -1, n - 1))
      end == IF st > 0 THEN (IF stop = None THEN n ELSE Clamp(stop, 0, n))
             ELSE (IF stop = None THEN -1 ELSE Clamp(stop, -1, n - 1))
      count == IF st = 0 THEN 0
               ELSE IF st > 0
               THEN (IF end > first THEN (end - first + st - 1) \div st ELSE 0)
               ELSE (IF end < first THEN (first - end - st - 1) \div (-st) ELSE 0)
  IN [k \in 1..count |-> first + (k - 1) * st]

\* slice step cannot be zero
ZeroStep(step) == step # None /\ step.v = 0

\* ser.iloc[start:stop:step]: the rows keep their labels
ILocSlice(ser, start, stop, step) ==
  LET positions == SlicePositions(Len(ser.vals), start, stop, step)
  IN IF ZeroStep(step) THEN Err("ValueError")
     ELSE Ser(ser.name, [k \in DOMAIN positions |-> ser.index[positions[k] + 1]],
              [k \in DOMAIN positions |-> ser.vals[positions[k] + 1]], ser.dtype)

\* PandasColumn.slice_rows: the absent bounds are replaced by 0, len and 1
\* before the slice is taken
column_slice_rows(column, start, stop, step) ==
  LET sliced == ILocSlice(column.series,
                          IF start = None THEN Scalar(0, "int64") ELSE start,
                          IF stop = None THEN Scalar(Len(column.series.vals), "int64") ELSE stop,
                          IF step = None THEN Scalar(1, "int64") ELSE step)
  IN IF IsErr(sliced) THEN sliced ELSE PandasColumn(sliced, column.api_version)

\* PandasDataFrame.slice_rows / PandasEagerFrame.slice_rows:
\* self.dataframe.iloc[start:stop:step] with the bounds as they were given
slice_rows(df, api_version, start, stop, step) ==
  LET positions == SlicePositions(Len(df.index), start, stop, step)
  IN IF ZeroStep(step) THEN Err("ValueError")
     ELSE InitDataFrame(TakeRows(df, [k \in DOMAIN positions |-> positions[k] + 1],
                                 [k \in DOMAIN positions |-> df.index[positions[k] + 1]]),
                        api_version)

\* PandasColumn.get_value: self.column.iloc[row]; a negative row counts
\* from the end
get_value(column, row) ==
  LET n == Len(column.series.vals)
  IN IF row >= n \/ row < -n THEN Err("IndexError")
     ELSE Scalar(column.series.vals[(IF row < 0 THEN row + n ELSE row) + 1],
                 column.series.dtype)

(***************************************************************************)
(* Operations that work on a copy of the receiver's DataFrame and assign   *)
(* columns into it.  They act on the heap F of DataFrame objects and give  *)
(* [frames, result]: the heap after the call (a copy that an exception     *)
(* leaves unreferenced is dropped) and Err(...) or the identity of the     *)
(* DataFrame the new Table holds.                                          *)
(***************************************************************************)
FrameRef(id) == [kind |-> "frame", id |-> id]

\* the receiver's own DataFrame object instead of a copy
dataframe_alias(F, id) == [frames |-> F, id |-> id]

\* self.dataframe.copy()
dataframe_copy(F, id) == [frames |-> Append(F, F[id]), id |-> Len(F) + 1]

\* df[name] = ser: the Series is aligned to df's index
SetItem(df, name, ser) ==
  LET vals == Reindex(ser, df.index)
      column == [name |-> name, vals |-> vals, dtype |-> WithNA(ser.dtype, vals)]
  IN IF HasColumn(df, name)
     THEN [df EXCEPT !.columns[ColumnPos(df, name)] = column]
     ELSE [df EXCEPT !.columns = Append(@, column)]

\* the heap after a call that ended in `result`
Finish(F0, F, result) ==
  [frames |-> IF IsErr(result) THEN SubSeq(F, 1, Len(F0)) ELSE F, result |-> result]

\* update_columns without the check of the api version
update_columns_any_version(H, F, self, api_version, columns) ==
  IF api_version \notin SUPPORTED_VERSIONS
  THEN [frames |-> F, result |-> Err("NotImplementedError")]
  ELSE
    LET work == dataframe_copy(F, self)
        Step[i \in 0..Len(columns)] ==
          IF i = 0 THEN [frames |-> work.frames, err |-> None]
          ELSE IF IsErr(Step[i - 1].err) THEN Step[i - 1]
          ELSE LET G == Step[i - 1].frames
                   new_column == Resolve(H, G[self], columns[i])
               IN IF IsErr(new_column) THEN [frames |-> G, err |-> new_column]
                  ELSE IF ~IsSeries(new_column) THEN [frames |-> G, err |-> Err("AttributeError")]
                  ELSE IF ~HasColumn(G[work.id], new_column.name)
                  THEN [frames |-> G,
                        err |-> IF columns[i].kind = "column" THEN Err("ValueError")
                                ELSE Err("AttributeError")]
                  ELSE [frames |-> [G EXCEPT ![work.id] = SetItem(@, new_column.name, new_column)],
                        err |-> None]
        end == Step[Len(columns)]
        made == InitDataFrame(end.frames[work.id], api_version)
    IN IF IsErr(end.err) THEN Finish(F, end.frames, end.err)
       ELSE IF IsErr(made) THEN Finish(F, end.frames, made)
       ELSE Finish(F, end.frames, FrameRef(work.id))

\* PandasDataFrame.update_columns / PandasEagerFrame.update_columns.  The
\* message of the ValueError reads col.name, which a PandasExpression does
\* not have.
update_columns(H, F, self, api_version, columns) ==
  IF api_version = "2023.08-beta" THEN [frames |-> F, result |-> Err("NotImplementedError")]
  ELSE
    LET work == dataframe_copy(F, self)
        Step[i \in 0..Len(columns)] ==
          IF i = 0 THEN [frames |-> work.frames, err |-> None]
          ELSE IF IsErr(Step[i - 1].err) THEN Step[i - 1]
          ELSE LET G == Step[i - 1].frames
                   new_column == Resolve(H, G[self], columns[i])
               IN IF IsErr(new_column) THEN [frames |-> G, err |-> new_column]
                  ELSE IF ~IsSeries(new_column) THEN [frames |-> G, err |-> Err("AttributeError")]
                  ELSE IF ~HasColumn(G[work.id], new_column.name)
                  THEN [frames |-> G,
                        err |-> IF columns[i].kind = "column" THEN Err("ValueError")
                                ELSE Err("AttributeError")]
                  ELSE [frames |-> [G EXCEPT ![work.id] = SetItem(@, new_column.name, new_column)],
                        err |-> None]
        end == Step[Len(columns)]
        made == InitDataFrame(end.frames[work.id], api_version)
    IN IF IsErr(end.err) THEN Finish(F, end.frames, end.err)
       ELSE IF IsErr(made) THEN Finish(F, end.frames, made)
       ELSE Finish(F, end.frames, FrameRef(work.id))

\* PandasDataFrame.fill_null / PandasEagerFrame.fill_null;
\* column_names = <<>> stands for None (all columns)
fill_null(F, self, api_version, value, column_names) ==
  LET names == IF column_names = <<>> THEN ColumnNames(F[self]) ELSE column_names
      work == dataframe_copy(F, self)
      Step[i \in 0..Len(names)] ==
        IF i = 0 THEN [frames |-> work.frames, err |-> None]
        ELSE IF IsErr(Step[i - 1].err) THEN Step[i - 1]
        ELSE LET G == Step[i - 1].frames
                 column == LocColumn(G[work.id], names[i])
             IN IF IsErr(column) THEN [frames |-> G, err |-> column]
                ELSE [frames |-> [G EXCEPT ![work.id] =
                                    SetItem(@, names[i], FillNullFunc(column, value))],
                      err |-> None]
      end == Step[Len(names)]
      made == InitDataFrame(end.frames[work.id], api_version)
  IN IF IsErr(end.err) THEN Finish(F, end.frames, end.err)
     ELSE IF IsErr(made) THEN Finish(F, end.frames, made)
     ELSE Finish(F, end.frames, FrameRef(work.id))

\* an operation that builds a new DataFrame object for its result
Fresh(F, r) ==
  IF IsErr(r) THEN [frames |-> F, result |-> r]
  ELSE [frames |-> Append(F, r.df), result |-> FrameRef(Len(F) + 1)]

(***************************************************************************)
(* The state machine.                                                      *)
(***************************************************************************)
Last(op, recv, name, arg, outcome, result) ==
  [op |-> op, recv |-> recv, name |-> name, arg |-> arg,
   outcome |-> outcome, result |-> result]
Outcome(r) == IF IsErr(r) THEN r.err ELSE "ok"

Table(df, api_version, eager) == [df |-> df, api_version |-> api_version, eager |-> eager]
DataFrameOfTable(t) == frames[tables[t].df]

\* the raw data the Tables and Columns of the initial state are built from
IntColumn(name, vals) == [name |-> name, vals |-> vals, dtype |-> "int64"]
RawFrame1 == DataFrameOf(RangeIndex(3), <<IntColumn("a", <<2, 1, 3>>), IntColumn("b", <<0, 2, 1>>)>>)
RawFrame2 == DataFrameOf(RangeIndex(2), <<IntColumn("a", <<3, 1>>), IntColumn("b", <<1, 1>>)>>)
RawSeries1 == Ser("a", RangeIndex(3), <<1, 3, 2>>, "int64")
RawSeries2 == Ser(NoneName, RangeIndex(3), <<2, 0, 1>>, "int64")

\* Two Tables and two Columns built by the constructors, no Expression yet.
Init ==
  /\ exprs = <<>>
  /\ lists = <<>>
  /\ frames = <<InitDataFrame(RawFrame1, "2023.09-beta").df,
                InitDataFrame(RawFrame2, "2023.08-beta").df>>
  /\ tables = <<Table(1, "2023.09-beta", FALSE), Table(2, "2023.08-beta", TRUE)>>
  /\ cols = <<ColumnObject(PandasColumn(RawSeries1, "2023.09-beta")),
              ColumnObject(PandasColumn(RawSeries2, "2023.08-beta"))>>
  /\ last = Last("init", 0, "", None, "ok", None)

\* the operands a caller can pass
Operands ==
  {Scalar(2, "int64")}
    \cup {ExprRef(i) : i \in DOMAIN exprs}
    \cup {ColRef(i) : i \in DOMAIN cols}
    \cup {TableRef(1)}

RootNames == {"a", "b"}
NewNames == {"c", NoneName}

\* the chaining calls a caller makes; a Table is passed only to __add__
ChainCalls ==
  {Call(m, o) : m \in {"gt", "add", "filter", "get_rows"},
                o \in {x \in Operands : x.kind # "table"}}
    \cup {Call("add", TableRef(1))}
    \cup {CallName("rename", n) : n \in {"c"}}
    \cup {CallVal("sort", v) : v \in {0, 1}}
    \cup {CallVal("fill_null", 0), Call("sum", None), Call("cumulative_sum", None)}

SetHeap(H) ==
  /\ exprs' = H.exprs
  /\ lists' = H.lists
  /\ cols' = H.cols

\* col(name)
NewCol(name) ==
  /\ Len(exprs) < MaxExprs
  /\ SetHeap(col(Heap, name))
  /\ last' = Last("col", 0, name, None, "ok", ExprRef(Len(exprs) + 1))
  /\ UNCHANGED <<frames, tables>>

\* column._to_expression()
ColumnToExpression(c) ==
  /\ Len(exprs) < MaxExprs
  /\ SetHeap(to_expression(Heap, c))
  /\ last' = Last("to_expression", c, "", None, "ok", ExprRef(Len(exprs) + 1))
  /\ UNCHANGED <<frames, tables>>

\* expression.<method>(...): any chaining method of PandasExpression
ExpressionChain(e, call) ==
  /\ Len(exprs) < MaxExprs
  /\ SetHeap(ExpressionCall(Heap, e, call))
  /\ last' = Last("chain", e, call.method, call, "ok", ExprRef(Len(exprs) + 1))
  /\ UNCHANGED <<frames, tables>>

\* table._resolve_expression(operand)
ResolveOperand(t, operand) ==
  /\ LET r == Resolve(Heap, DataFrameOfTable(t), operand)
     IN last' = Last("resolve", t, "", operand, Outcome(r), r)
  /\ UNCHANGED <<exprs, lists, cols, frames, tables>>

\* column.rename(name): the name is assigned first, then the rename is done
\* through the Expression implementation
ColumnRename(c, name) ==
  LET H1 == [Heap EXCEPT !.cols[c].name = name]
      r == reuse_expression_implementation(H1, c, CallName("rename", name))
  IN /\ cols' = H1.cols
     /\ last' = Last("column_rename", c, name, None, Outcome(r), r)
     /\ UNCHANGED <<exprs, lists, frames, tables>>

\* column <op> other for the six comparison operators
ColumnCompare(c, op, other) ==
  LET r == reuse_expression_implementation(Heap, c, Call(ColumnComparisonMethod(op), other))
  IN /\ last' = Last("column_compare", c, op, other, Outcome(r), r)
     /\ UNCHANGED <<exprs, lists, cols, frames, tables>>

\* Expressions: building chains and resolving them against the Tables
Next ==
  \/ \E name \in RootNames : NewCol(name)
  \/ \E c \in DOMAIN cols : ColumnToExpression(c)
  \/ \E e \in DOMAIN exprs : \E call \in ChainCalls : ExpressionChain(e, call)
  \/ \E t \in DOMAIN tables : \E operand \in Operands : ResolveOperand(t, operand)

Spec == Init /\ [][Next]_vars

\* Columns: their own operations, and the Expressions made from them
NextColumn ==
  \/ \E c \in DOMAIN cols : Len(exprs) < MaxColumnExprs /\ ColumnToExpression(c)
  \/ \E t \in DOMAIN tables : \E operand \in Operands : ResolveOperand(t, operand)
  \/ \E c \in DOMAIN cols : \E name \in NewNames : ColumnRename(c, name)
  \/ \E c \in DOMAIN cols : \E op \in Comparisons :
       \E other \in {x \in Operands : x.kind \in {"scalar", "column"}} :
         ColumnCompare(c, op, other)

SpecColumn == Init /\ [][NextColumn]_vars

(***************************************************************************)
(* Tables: the operations of PandasDataFrame and PandasEagerFrame, applied *)
(* to the Tables made so far with a fixed pool of Expressions.             *)
(***************************************************************************)
\* 1..8: col("a"), col("b"), a > 2, a.filter(a > 2), b.rename("c"), a + b,
\* a.sum(), a.filter(a > 2).rename("c");
\* 9..14: b.sort(ascending=False), b.sorted_indices(ascending=False),
\* b.get_rows(<10>), b.sort(), b.sorted_indices(), b.get_rows(<13>)
Pool ==
  LET H0 == [exprs |-> <<>>, lists |-> <<>>,
             cols |-> <<ColumnObject(PandasColumn(RawSeries1, "2023.09-beta")),
                        ColumnObject(PandasColumn(RawSeries2, "2023.08-beta"))>>]
      H1 == col(H0, "a")
      H2 == col(H1, "b")
      H3 == Chain(H2, 1, Fn("gt"), Scalar(2, "int64"))
      H4 == Chain(H3, 1, Fn("filter"), ExprRef(3))
      H5 == ExpressionRename(H4, 2, "c")
      H6 == Chain(H5, 1, Fn("add"), ExprRef(2))
      H7 == Chain(H6, 1, Fn("sum"), None)
      H8 == ExpressionRename(H7, 4, "c")
      H9 == Chain(H8, 2, FnVal("sort", 0), None)
      H10 == Chain(H9, 2, FnVal("sorted_indices", 0), None)
      H11 == Chain(H10, 2, Fn("get_rows"), ExprRef(10))
      H12 == Chain(H11, 2, FnVal("sort", 1), None)
      H13 == Chain(H12, 2, FnVal("sorted_indices", 1), None)
  IN Chain(H13, 2, Fn("get_rows"), ExprRef(13))

InitTable ==
  /\ exprs = Pool.exprs
  /\ lists = Pool.lists
  /\ cols = Pool.cols
  /\ frames = <<InitDataFrame(RawFrame1, "2023.09-beta").df,
                InitDataFrame(RawFrame2, "2023.08-beta").df>>
  /\ tables = <<Table(1, "2023.09-beta", FALSE), Table(2, "2023.08-beta", TRUE)>>
  /\ last = Last("init", 0, "", None, "ok", None)

\* the raw DataFrames a caller wraps: well-formed, duplicate names, a name
\* that is not a str, rows labelled out of order
RawDuplicate == DataFrameOf(RangeIndex(2), <<IntColumn("a", <<1, 2>>), IntColumn("a", <<3, 4>>)>>)
RawNonString == DataFrameOf(RangeIndex(2), <<IntColumn(IntName(0), <<1, 2>>), IntColumn("b", <<3, 4>>)>>)
RawShuffled ==
  DataFrameOf(<<2, 0, 1>>,
    <<IntColumn("a", <<1, 2, 3>>), [name |-> "b", vals |-> <<1, NA, 2>>, dtype |-> "float64"]>>)
RawFrames == {RawFrame2, RawDuplicate, RawNonString, RawShuffled}
ApiVersions == {"2023.09-beta", "2023.10-beta"}

SelectEntries ==
  {StrEntry("a"), StrEntry("z"), ExprRef(2), ExprRef(4), ExprRef(5), ExprRef(7),
   ExprRef(8), ExprRef(9), ExprRef(12), ColRef(2)}
SelectNames == {<<x>> : x \in SelectEntries} \cup {<<StrEntry("a"), x>> : x \in SelectEntries}
Masks == {ExprRef(3), ExprRef(2), Scalar(2, "int64")}
InsertValues == {ExprRef(5), ExprRef(1), ExprRef(8), ExprRef(7)}
UpdateLists ==
  {<<ExprRef(6)>>, <<ExprRef(4)>>, <<ExprRef(5)>>, <<ExprRef(6), ExprRef(5)>>, <<ColRef(1)>>,
   <<ColRef(2)>>}
Labels == {"a", "z"}
Renamings == {<<"a", "c">>, <<"a", "b">>}
SortKeys == {<<>>, <<"a">>, <<"b", "a">>}
NullsPositions == {"first", "last"}
FillColumns == {<<>>, <<"b">>, <<"z">>}
GroupKeys == {<<"b">>, <<"z">>}
JoinOthers == {TableRef(i) : i \in DOMAIN tables} \cup {Scalar(2, "int64")}
JoinKeys == {"a", "z"}
JoinHows == {"left", "inner", "outer", "cross"}

\* the step of a Table operation `op` called on Table t that ended as R.
\* An exception leaves only its trace in `last`; a result is a new Table
\* object around the DataFrame R.result.id.
TableStep(op, t, name, arg, R, api_version, eager) ==
  /\ Len(tables) < MaxTables
  /\ frames' = R.frames
  /\ IF IsErr(R.result)
     THEN /\ tables' = tables
          /\ last' = Last(op, t, name, arg, R.result.err, R.result)
     ELSE /\ tables' = Append(tables, Table(R.result.id, api_version, eager))
          /\ last' = Last(op, t, name, arg, "ok", TableRef(Len(tables) + 1))
  /\ UNCHANGED <<exprs, lists, cols>>

Api(t) == tables[t].api_version

\* PandasDataFrame(raw, api_version=api_version)
Construct(raw, api_version) ==
  TableStep("construct", 0, api_version, raw,
            Fresh(frames, InitDataFrame(raw, api_version)), api_version, FALSE)

Select(t, names) ==
  TableStep("select", t, "", names,
            Fresh(frames, select(Heap, DataFrameOfTable(t), Api(t), names)), Api(t), FALSE)

Filter(t, mask) ==
  TableStep("filter", t, "", mask,
            Fresh(frames, filter(Heap, DataFrameOfTable(t), Api(t), mask)), Api(t), FALSE)

InsertColumn(t, value) ==
  TableStep("insert_column", t, "", value,
            Fresh(frames, insert_column(Heap, DataFrameOfTable(t), Api(t), value)),
            Api(t), FALSE)

UpdateColumns(t, columns) ==
  TableStep("update_columns", t, "", columns,
            update_columns(Heap, frames, tables[t].df, Api(t), columns), Api(t), FALSE)

DropColumn(t, label) ==
  TableStep("drop_column", t, label, None,
            Fresh(frames, drop_column(DataFrameOfTable(t), Api(t), label)), Api(t), FALSE)

RenameColumns(t, mapping) ==
  TableStep("rename_columns", t, "", mapping,
            Fresh(frames, rename_columns(DataFrameOfTable(t), Api(t), mapping[1], mapping[2])),
            Api(t), FALSE)

Sort(t, keys, ascending, nulls_position) ==
  TableStep("sort", t, nulls_position, [keys |-> keys, ascending |-> ascending],
            Fresh(frames, sort(DataFrameOfTable(t), Api(t), keys, ascending, nulls_position)),
            Api(t), FALSE)

FillNull(t, value, column_names) ==
  TableStep("fill_null", t, "", [value |-> value, column_names |-> column_names],
            fill_null(frames, tables[t].df, Api(t), value, column_names), Api(t), FALSE)

FillNan(t, value) ==
  TableStep("fill_nan", t, "", Scalar(value, "int64"),
            Fresh(frames, fill_nan(DataFrameOfTable(t), Api(t), value)), Api(t), FALSE)

\* the object an operand denotes when it is passed as `other`
OtherObject(other) ==
  IF other.kind = "table"
  THEN [kind |-> "table", eager |-> tables[other.id].eager, df |-> DataFrameOfTable(other.id)]
  ELSE other

Join(t, other, on, how) ==
  TableStep("join", t, how, [other |-> other, on |-> on],
            Fresh(frames, join(DataFrameOfTable(t), Api(t), OtherObject(other), on, on, how)),
            Api(t), FALSE)

GroupBySum(t, keys) ==
  TableStep("groupby_sum", t, "", keys,
            Fresh(frames, groupby_sum(DataFrameOfTable(t), Api(t), keys)), Api(t), FALSE)

Sum(t) ==
  TableStep("sum", t, "", None, Fresh(frames, sum(DataFrameOfTable(t), Api(t))), Api(t), FALSE)

\* PandasDataFrame.collect: a PandasEagerFrame around the same DataFrame
Collect(t) ==
  TableStep("collect", t, "", None,
            IF tables[t].eager THEN [frames |-> frames, result |-> Err("AttributeError")]
            ELSE [frames |-> frames, result |-> FrameRef(tables[t].df)],
            Api(t), TRUE)

\* PandasEagerFrame.maybe_lazify: a PandasDataFrame around the same DataFrame
MaybeLazify(t) ==
  TableStep("maybe_lazify", t, "", None,
            IF ~tables[t].eager THEN [frames |-> frames, result |-> Err("AttributeError")]
            ELSE [frames |-> frames, result |-> FrameRef(tables[t].df)],
            Api(t), FALSE)

NextTable ==
  \/ \E raw \in RawFrames : \E api_version \in ApiVersions : Construct(raw, api_version)
  \/ \E t \in DOMAIN tables : \E names \in SelectNames : Select(t, names)
  \/ \E t \in DOMAIN tables : \E mask \in Masks : Filter(t, mask)
  \/ \E t \in DOMAIN tables : \E value \in InsertValues : InsertColumn(t, value)
  \/ \E t \in DOMAIN tables : \E columns \in UpdateLists : UpdateColumns(t, columns)
  \/ \E t \in DOMAIN tables : \E label \in Labels : DropColumn(t, label)
  \/ \E t \in DOMAIN tables : \E mapping \in Renamings : RenameColumns(t, mapping)
  \/ \E t \in DOMAIN tables : \E keys \in SortKeys : \E ascending \in BOOLEAN :
       \E nulls_position \in NullsPositions : Sort(t, keys, ascending, nulls_position)
  \/ \E t \in DOMAIN tables : \E column_names \in FillColumns : FillNull(t, 0, column_names)
  \/ \E t \in DOMAIN tables : FillNan(t, 0)
  \/ \E t \in DOMAIN tables : \E other \in JoinOthers : \E on \in JoinKeys :
       \E how \in JoinHows : Join(t, other, on, how)
  \/ \E t \in DOMAIN tables : \E keys \in GroupKeys : GroupBySum(t, keys)
  \/ \E t \in DOMAIN tables : Sum(t)
  \/ \E t \in DOMAIN tables : Collect(t)
  \/ \E t \in DOMAIN tables : MaybeLazify(t)

SpecTable == InitTable /\ [][NextTable]_vars

(***************************************************************************)
(* Arithmetic: __divmod__ of Expressions and Columns on a Table            *)
(* {a: A, b: D} and Columns a and b with the same data, for every A and    *)
(* every non-zero D within the bounds.                                     *)
(***************************************************************************)
Dividends == {-3, -2, 0, 2, 3}
Divisors == {-2, -1, 2, 3}
DivisorScalars == {Scalar(-2, "int64"), Scalar(3, "int64")}

InitArith ==
  \E A \in [1..2 -> Dividends] : \E D \in [1..2 -> Divisors] :
    LET H0 == [exprs |-> <<>>, lists |-> <<>>,
               cols |-> <<ColumnObject(PandasColumn(Ser("a", RangeIndex(2), A, "int64"),
                                                    "2023.09-beta")),
                          ColumnObject(PandasColumn(Ser("b", RangeIndex(2), D, "int64"),
                                                    "2023.09-beta"))>>]
        H == col(col(H0, "a"), "b")
    IN /\ exprs = H.exprs
       /\ lists = H.lists
       /\ cols = H.cols
       /\ frames = <<InitDataFrame(DataFrameOf(RangeIndex(2),
                        <<IntColumn("a", A), IntColumn("b", D)>>), "2023.09-beta").df>>
       /\ tables = <<Table(1, "2023.09-beta", FALSE)>>
       /\ last = Last("init", 0, "", None, "ok", None)

\* divmod(expression, other)
ExpressionDivmod(e, other) ==
  /\ Len(exprs) < MaxExprs
  /\ LET r == expression_divmod(Heap, e, other)
     IN /\ SetHeap(r.heap)
        /\ last' = Last("divmod", e, "", other, "ok", r.result)
  /\ UNCHANGED <<frames, tables>>

\* divmod(column, other)
ColumnDivmod(c, other) ==
  /\ \E r \in {column_divmod(Heap, c, other)} :
       last' = Last("column_divmod", c, "", other, Outcome(r), r)
  /\ UNCHANGED <<exprs, lists, cols, frames, tables>>

NextArith ==
  \/ \E other \in {ExprRef(2), ColRef(2)} \cup DivisorScalars : ExpressionDivmod(1, other)
  \/ \E other \in {ColRef(2)} \cup DivisorScalars : ColumnDivmod(1, other)
  \/ \E t \in DOMAIN tables : \E e \in DOMAIN exprs : ResolveOperand(t, ExprRef(e))

SpecArith == InitArith /\ [][NextArith]_vars

\* ---------------------------------------------------------------------
\* Missing values: Tables over a numpy-backed float column and over a
\* column of the extension dtype Float64, whose NaN comes from 0.0 / 0.0
\* ---------------------------------------------------------------------
RawNumpyFloat ==
  DataFrameOf(RangeIndex(3), <<[name |-> "a", vals |-> <<1, NA, 2>>, dtype |-> "float64"],
                               IntColumn("b", <<1, 5, 2>>)>>)
RawNullable ==
  DataFrameOf(RangeIndex(3), <<[name |-> "a", vals |-> <<1, NaN, NA>>, dtype |-> "Float64"],
                               IntColumn("b", <<2, 9, 1>>)>>)
RawStrings == Ser("s", RangeIndex(3), <<1, 2, 3>>, "str")
RawIntegers == Ser("n", RangeIndex(3), <<1, 2, 7>>, "int64")
FillValues == {0, 7}

\* the Expressions the callers of this specification hold
ElementPool ==
  LET H0 == [exprs |-> <<>>, lists |-> <<>>,
             cols |-> <<ColumnObject(PandasColumn(RawStrings, "2023.09-beta")),
                        ColumnObject(PandasColumn(RawIntegers, "2023.09-beta"))>>]
      H1 == col(H0, "a")
      H2 == col(H1, "b")
      H3 == Chain(H2, 1, Fn("is_null"), None)
      H4 == Chain(H3, 1, Fn("is_nan"), None)
      H5 == Chain(H4, 1, FnVal("fill_nan", 0), None)
      H6 == Chain(H5, 1, FnVal("fill_null", 0), None)
      H7 == Chain(H6, 2, Fn("is_in"), ColRef(2))
      H8 == Chain(H7, 2, Fn("is_in"), ColRef(1))
      H9 == Chain(H8, 2, Fn("is_in"), Scalar(1, "int64"))
      H10 == Chain(H9, 1, Fn("is_in"), ExprRef(2))
  IN ExpressionRename(H10, 6, "a")

InitElement ==
  /\ exprs = ElementPool.exprs
  /\ lists = ElementPool.lists
  /\ cols = ElementPool.cols
  /\ frames = <<InitDataFrame(RawNumpyFloat, "2023.09-beta").df,
                InitDataFrame(RawNullable, "2023.09-beta").df>>
  /\ tables = <<Table(1, "2023.09-beta", FALSE), Table(2, "2023.09-beta", FALSE)>>
  /\ last = Last("init", 0, "", None, "ok", None)

ElementSelects == {<<ExprRef(e)>> : e \in DOMAIN ElementPool.exprs}
ElementColumns == {<<>>, <<"a">>, <<"b">>}

IsNull(t) ==
  TableStep("is_null", t, "", None,
            Fresh(frames, is_null(DataFrameOfTable(t), Api(t))), Api(t), FALSE)

IsNan(t) ==
  TableStep("is_nan", t, "", None,
            Fresh(frames, is_nan(DataFrameOfTable(t), Api(t))), Api(t), FALSE)

NextElement ==
  \/ \E t \in DOMAIN tables : IsNull(t)
  \/ \E t \in DOMAIN tables : IsNan(t)
  \/ \E t \in DOMAIN tables : \E value \in FillValues : FillNan(t, value)
  \/ \E t \in DOMAIN tables : \E value \in FillValues :
       \E column_names \in ElementColumns : FillNull(t, value, column_names)
  \/ \E t \in DOMAIN tables : \E names \in ElementSelects : Select(t, names)

SpecElement == InitElement /\ [][NextElement]_vars

\* ---------------------------------------------------------------------
\* GroupBy: Tables with boolean and integer columns, and every aggregation
\* ---------------------------------------------------------------------
BoolColumn(name, vals) == [name |-> name, vals |-> vals, dtype |-> "bool"]
RawBoolean ==
  DataFrameOf(RangeIndex(3), <<IntColumn("key", <<1, 1, 2>>), BoolColumn("b", <<0, 1, 1>>),
                               BoolColumn("c", <<1, 0, 0>>)>>)
RawMixed ==
  DataFrameOf(RangeIndex(3), <<IntColumn("key", <<1, 2, 1>>), IntColumn("b", <<3, 1, 2>>),
                               BoolColumn("c", <<1, 0, 1>>)>>)
AggregationKeys == {<<"key">>, <<"key", "c">>, <<"z">>}

InitGroupBy ==
  /\ exprs = <<>>
  /\ lists = <<>>
  /\ cols = <<>>
  /\ frames = <<InitDataFrame(RawBoolean, "2023.09-beta").df,
                InitDataFrame(RawMixed, "2023.09-beta").df>>
  /\ tables = <<Table(1, "2023.09-beta", FALSE), Table(2, "2023.09-beta", FALSE)>>
  /\ last = Last("init", 0, "", None, "ok", None)

\* table.groupby(keys).<agg>()
GroupByAggregate(t, keys, agg) ==
  TableStep("groupby", t, agg, keys,
            Fresh(frames, groupby_aggregate(DataFrameOfTable(t), Api(t), keys, agg)),
            Api(t), FALSE)

NextGroupBy ==
  \/ \E t \in DOMAIN tables : \E keys \in AggregationKeys :
       \E agg \in Aggregations \cup {"size"} : GroupByAggregate(t, keys, agg)
  \/ \E t \in DOMAIN tables : DropColumn(t, "b")

SpecGroupBy == InitGroupBy /\ [][NextGroupBy]_vars

\* ---------------------------------------------------------------------
\* Columns and Tables by position: get_value and slice_rows, and the
\* Column transformations that reuse the Expression implementation
\* ---------------------------------------------------------------------
RawRows == Ser("a", RangeIndex(3), <<5, 7, 6>>, "int64")
RawFrame3 == DataFrameOf(RangeIndex(3), <<IntColumn("a", <<5, 7, 6>>)>>)
Rows == -4..3
SliceBounds == {None} \cup {Scalar(v, "int64") : v \in {-2, 1, 4}}
SliceSteps == {None} \cup {Scalar(v, "int64") : v \in {-2, -1, 0, 2}}

InitRows ==
  /\ exprs = <<>>
  /\ lists = <<>>
  /\ cols = <<ColumnObject(PandasColumn(RawRows, "2023.09-beta"))>>
  /\ frames = <<InitDataFrame(RawFrame3, "2023.09-beta").df,
                InitDataFrame(RawFrame1, "2023.09-beta").df,
                InitDataFrame(RawFrame2, "2023.08-beta").df>>
  /\ tables = <<Table(1, "2023.09-beta", FALSE), Table(2, "2023.09-beta", FALSE),
                Table(3, "2023.08-beta", TRUE)>>
  /\ last = Last("init", 0, "", None, "ok", None)

\* column.get_value(row)
GetValue(c, row) ==
  /\ last' = Last("get_value", c, "", Scalar(row, "int64"),
                  Outcome(get_value(cols[c], row)), get_value(cols[c], row))
  /\ UNCHANGED <<exprs, lists, cols, frames, tables>>

\* column.slice_rows(start, stop, step): a new PandasColumn
ColumnSliceRows(c, start, stop, step) ==
  /\ Len(cols) < MaxColumns
  /\ \E r \in {column_slice_rows(cols[c], start, stop, step)} :
       IF IsErr(r)
       THEN /\ cols' = cols
            /\ last' = Last("column_slice_rows", c, "",
                            [start |-> start, stop |-> stop, step |-> step], r.err, r)
       ELSE /\ cols' = Append(cols, ColumnObject(r))
            /\ last' = Last("column_slice_rows", c, "",
                            [start |-> start, stop |-> stop, step |-> step],
                            "ok", ColRef(Len(cols) + 1))
  /\ UNCHANGED <<exprs, lists, frames, tables>>

SliceRows(t, start, stop, step) ==
  TableStep("slice_rows", t, "", [start |-> start, stop |-> stop, step |-> step],
            Fresh(frames, slice_rows(DataFrameOfTable(t), Api(t), start, stop, step)),
            Api(t), tables[t].eager)

\* column.cumulative_sum() .. column.unique_indices()
ColumnTransform(c, method) ==
  /\ \E r \in {column_transformation(Heap, c, method)} :
       last' = Last("column_transformation", c, method, None, Outcome(r), r)
  /\ UNCHANGED <<exprs, lists, cols, frames, tables>>

\* column.filter(mask)
ColumnFilter(c, mask) ==
  /\ \E r \in {column_filter(Heap, c, mask)} :
       last' = Last("column_filter", c, "", ColRef(mask), Outcome(r), r)
  /\ UNCHANGED <<exprs, lists, cols, frames, tables>>

NextRows ==
  \/ \E c \in DOMAIN cols : \E row \in Rows : GetValue(c, row)
  \/ \E c \in DOMAIN cols : \E method \in ColumnTransformations : ColumnTransform(c, method)
  \/ \E c \in DOMAIN cols : \E mask \in DOMAIN cols : ColumnFilter(c, mask)
  \/ \E c \in DOMAIN cols : \E start \in SliceBounds : \E stop \in SliceBounds :
       \E step \in SliceSteps : ColumnSliceRows(c, start, stop, step)
  \/ \E t \in DOMAIN tables : \E start \in SliceBounds : \E stop \in SliceBounds :
       \E step \in SliceSteps : SliceRows(t, start, stop, step)

SpecRows == InitRows /\ [][NextRows]_vars

(***************************************************************************)
(* Properties of Expressions and Columns.                                  *)
(***************************************************************************)
ResolveIn(H, F, T, t, e) == Resolve(H, F[T[t].df], ExprRef(e))

\* the root names of e are columns of Table t
ProvidesRoots(e, t) ==
  SeqToSet(exprs[e].root_names) \subseteq SeqToSet(ColumnNames(DataFrameOfTable(t)))

\* C1: resolving an Expression against a Table that provides its root names
\* gives the same result before and after any public operation on
\* Expressions, Columns or Tables.
C1_ReferentialTransparency ==
  [][\A e \in DOMAIN exprs : \A t \in DOMAIN tables :
       ProvidesRoots(e, t) =>
         ResolveIn(Heap, frames, tables, t, e) = ResolveIn(Heap', frames', tables', t, e)]_vars

\* C2: a chaining operation returns a new Expression and leaves every
\* existing Expression's step list, root_names, output_name and base_call,
\* and so its resolution against every Table, as they were.
C2_ExpressionImmutable ==
  [][last'.op = "chain" =>
       /\ Len(exprs') = Len(exprs) + 1
       /\ last'.result = ExprRef(Len(exprs'))
       /\ \A e \in DOMAIN exprs :
            /\ exprs'[e] = exprs[e]
            /\ lists'[exprs[e].calls] = lists[exprs[e].calls]
            /\ \A t \in DOMAIN tables :
                 ResolveIn(Heap', frames', tables', t, e) = ResolveIn(Heap, frames, tables, t, e)]_vars

\* an Expression that has been chained from, twice, is still in the heap
C2_Witness ==
  /\ last.op = "chain"
  /\ \E e \in DOMAIN exprs :
       Cardinality({d \in DOMAIN exprs :
                      /\ lists[exprs[d].calls] # <<>>
                      /\ lists[exprs[d].calls][Len(lists[exprs[d].calls])].lhs = ExprRef(e)}) >= 2

\* the last recorded step of Expression e
LastStep(e) == lists[exprs[e].calls][Len(lists[exprs[e].calls])]

\* C3: the column that resolving E produces is named E.output_name, and the
\* Expression that rename(new_name) returns has output_name = new_name.
C3_OutputName ==
  \A e \in DOMAIN exprs :
    /\ (lists[exprs[e].calls] # <<>> /\ LastStep(e).func.op = "rename")
         => exprs[e].output_name = LastStep(e).func.name
    /\ \A t \in DOMAIN tables :
         IsSeries(ResolveIn(Heap, frames, tables, t, e))
           => ResolveIn(Heap, frames, tables, t, e).name = exprs[e].output_name

\* the root Expression a chain was started from
RECURSIVE RootOf(_, _)
RootOf(H, e) ==
  IF H.lists[H.exprs[e].calls] = <<>> THEN e
  ELSE RootOf(H, H.lists[H.exprs[e].calls][1].lhs.id)

\* f_n(... f_2(f_1(base(T), res(r_1)), res(r_2)) ..., res(r_n)) for the steps
\* (f_i, r_i) of e in recorded order; an exception ends the fold
LeftFold(H, df, e) ==
  LET calls == H.lists[H.exprs[e].calls]
      Acc[i \in 0..Len(calls)] ==
        IF i = 0 THEN CallBase(H, H.exprs[RootOf(H, e)].base_call, df)
        ELSE IF IsErr(Acc[i - 1]) THEN Acc[i - 1]
        ELSE LET r == Resolve(H, df, calls[i].rhs)
             IN IF IsErr(r) THEN r ELSE Apply(calls[i].func, Acc[i - 1], r)
  IN Acc[Len(calls)]

\* C4: resolution is the left fold of the recorded steps over the base
\* column, every right operand resolved against the same Table.
C4_LeftFold ==
  \A e \in DOMAIN exprs : \A t \in DOMAIN tables :
    ResolveIn(Heap, frames, tables, t, e) = LeftFold(Heap, DataFrameOfTable(t), e)

\* an Expression of two steps, one with an Expression as right operand,
\* that resolves to a column
C4_Witness ==
  \E e \in DOMAIN exprs :
    /\ Len(lists[exprs[e].calls]) >= 2
    /\ \E i \in DOMAIN lists[exprs[e].calls] : lists[exprs[e].calls][i].rhs.kind = "expr"
    /\ IsSeries(ResolveIn(Heap, frames, tables, 1, e))
    /\ ResolveIn(Heap, frames, tables, 1, e) # ResolveIn(Heap, frames, tables, 1, RootOf(Heap, e))

\* C5: a Column operand resolves to its own data, a Scalar to itself, and an
\* operand of any other type is rejected with an error.
C5_OperandClassification ==
  last.op = "resolve" =>
    CASE last.arg.kind = "column" -> last.result = cols[last.arg.id].series
      [] last.arg.kind = "scalar" -> last.result = last.arg
      [] last.arg.kind = "expr" -> TRUE
      [] OTHER -> IsErr(last.result)

\* what the Expression form of column c gives for c <op> other
ExpressionForm(c, op, other) ==
  LET H1 == to_expression(Heap, c)
      H2 == Chain(H1, Newest(H1), Fn(op), other)
  IN Resolve(H2, EmptyDataFrame, ExprRef(Newest(H2)))

\* C8: the Column returned by c <op> o holds the values that the same
\* operator gives on the Expression form of c.
C8_ColumnComparisonMirrors ==
  last.op = "column_compare" =>
    LET expected == ExpressionForm(last.recv, last.name, last.arg)
    IN IF IsErr(expected) THEN last.outcome # "ok"
       ELSE /\ last.outcome = "ok"
            /\ last.result.series.vals = expected.vals

\* C9: no Column operation changes a Column: its name and values stay, and
\* its name stays a string.
C9_ColumnValueSemantics ==
  [][\A c \in DOMAIN cols :
       /\ cols'[c].name = cols[c].name
       /\ cols'[c].series = cols[c].series
       /\ IsStr(cols'[c].name)]_vars

(***************************************************************************)
(* Properties of Tables.                                                   *)
(***************************************************************************)
TableOps ==
  {"select", "filter", "insert_column", "update_columns", "drop_column", "rename_columns",
   "sort", "fill_nan", "fill_null", "join", "sum", "groupby_sum"}

\* C6: a public Table operation, whether it succeeds or fails, leaves every
\* Table that existed before it -- the receiver among them -- with the same
\* column names, column order and values; only the returned Table is new.
C6_TableValueSemantics ==
  [][last'.op \in TableOps =>
       \A t \in DOMAIN tables :
         /\ t \in DOMAIN tables'
         /\ tables'[t] = tables[t]
         /\ frames'[tables'[t].df] = frames[tables[t].df]]_vars

\* an update_columns or fill_null that changed values has returned its Table
C6_Witness ==
  /\ last.op \in {"update_columns", "fill_null"}
  /\ last.outcome = "ok"
  /\ frames[tables[last.result.id].df] # frames[tables[last.recv].df]

WellFormed(df) ==
  /\ \A i, j \in DOMAIN df.columns : i # j => df.columns[i].name # df.columns[j].name
  /\ \A i \in DOMAIN df.columns : IsStr(df.columns[i].name)
  /\ IsCanonical(df.index)

HasDuplicateOrNonString(raw) ==
  \/ \E i, j \in DOMAIN raw.columns : i # j /\ raw.columns[i].name = raw.columns[j].name
  \/ \E i \in DOMAIN raw.columns : ~IsStr(raw.columns[i].name)

\* C7: every Table has pairwise-unique column names that are strings and a
\* canonical row index; constructing a Table from data with a duplicate or
\* a non-string name fails with an error and makes no Table.
C7_TableInvariant ==
  /\ [](\A t \in DOMAIN tables : WellFormed(frames[tables[t].df]))
  /\ [][(last'.op = "construct" /\ HasDuplicateOrNonString(last'.arg)) =>
          (last'.outcome # "ok" /\ tables' = tables)]_vars

\* a construction from ill-named data has failed, and a Table built from
\* rows labelled out of order exists
C7_Witness ==
  /\ last.op = "construct"
  /\ HasDuplicateOrNonString(last.arg)
  /\ last.outcome \in {"ValueError", "TypeError"}
  /\ \E t \in DOMAIN tables : frames[tables[t].df].columns = RawShuffled.columns

\* the entries of a select that resolve to a column of another length than
\* the receiver's row count
OffLength(t, names) ==
  {i \in DOMAIN names :
     LET r == IF names[i].kind = "str" THEN LocColumn(frames[tables[t].df], names[i].name)
              ELSE Resolve(Heap, frames[tables[t].df], names[i])
     IN IsSeries(r) /\ Len(r.vals) # Len(frames[tables[t].df].index)}

\* C10: a select with an entry that resolves to a column whose length is
\* not the receiver's row count fails (LengthMismatch) and returns no Table,
\* neither a padded one nor one with more rows.
C10_SelectLengthMismatch ==
  (last.op = "select" /\ OffLength(last.recv, last.arg) # {}) =>
     last.outcome # "ok"

\* the rows of df at the positions where the boolean column m is true, in
\* their order, under a canonical index
RowsWhereTrue(df, m) ==
  LET keep == SelectPos([i \in DOMAIN df.index |-> i], {i \in DOMAIN df.index : m.vals[i] = 1})
  IN TakeRows(df, keep, RangeIndex(Len(keep)))

\* C11: filter fails for a mask that does not resolve to a boolean column
\* of the receiver's length; for a valid mask it returns the receiver's rows
\* where the mask is true, in their order, with a canonical index.
C11_FilterMask ==
  last.op = "filter" =>
    LET df == frames[tables[last.recv].df]
        m == Resolve(Heap, df, last.arg)
    IN IF IsSeries(m) /\ m.dtype = "bool" /\ Len(m.vals) = Len(df.index)
       THEN /\ last.outcome = "ok"
            /\ frames[tables[last.result.id].df] = RowsWhereTrue(df, m)
       ELSE last.outcome # "ok"

\* some Expression of `columns` resolves against Table t to a column whose
\* name is not a column of t
MissingTarget(t, columns) ==
  \E i \in DOMAIN columns :
    /\ columns[i].kind = "expr"
    /\ LET r == Resolve(Heap, frames[tables[t].df], columns[i])
       IN IsSeries(r) /\ ~HasColumn(frames[tables[t].df], r.name)

\* C12: update_columns with an Expression whose resolved name is not a
\* column of the receiver fails with the column-not-found error, a
\* ValueError; no Table is returned and no DataFrame is made or changed.
C12_UpdateMissingColumn ==
  [][(/\ last'.op = "update_columns"
      /\ tables[last'.recv].api_version # "2023.08-beta"
      /\ MissingTarget(last'.recv, last'.arg))
       => (last'.outcome = "ValueError" /\ tables' = tables /\ frames' = frames)]_vars

\* C13: join with a `how` outside {left, inner, outer} fails with
\* ValueError whatever the receiver, the other object and the keys are, and
\* leaves every Table unchanged.
C13_JoinInvalidHow ==
  [][(last'.op = "join" /\ last'.name \notin JoinKinds)
       => (last'.outcome = "ValueError" /\ tables' = tables /\ frames' = frames)]_vars

\* a join with an invalid `how` has failed with ValueError although the
\* other object or the key would have failed a later check too
C13_Witness ==
  /\ last.op = "join"
  /\ last.name \notin JoinKinds
  /\ last.outcome = "ValueError"
  /\ \/ last.arg.other.kind # "table"
     \/ (last.arg.other.kind = "table" /\ tables[last.arg.other.id].eager)
     \/ ~HasColumn(frames[tables[last.recv].df], last.arg.on)

\* C14: joining a collected Table with a collected Table succeeds and gives
\* the rows and columns that the join of the two projection Tables gives.
C14_EagerJoin ==
  (/\ last.op = "join"
   /\ last.name \in JoinKinds
   /\ tables[last.recv].eager
   /\ last.arg.other.kind = "table"
   /\ tables[last.arg.other.id].eager)
    => LET lazy == join(frames[tables[last.recv].df], tables[last.recv].api_version,
                        [kind |-> "table", eager |-> FALSE,
                         df |-> frames[tables[last.arg.other.id].df]],
                        last.arg.on, last.arg.on, last.name)
       IN IF IsErr(lazy) THEN last.outcome = lazy.err
          ELSE last.outcome = "ok" /\ frames[tables[last.result.id].df] = lazy.df

\* the positions of the rows of df whose value in column `name` is missing
NullRows(df, name) ==
  {i \in DOMAIN df.index : df.columns[ColumnPos(df, name)].vals[i] = NA}

\* C15: in Table.sort nulls_position places the rows with a null key,
\* whatever `ascending` is: "first" puts every such row before every other
\* row, "last" after them.
C15_NullsPosition ==
  (last.op = "sort" /\ last.outcome = "ok") =>
    LET res == frames[tables[last.result.id].df]
        key == IF last.arg.keys = <<>> THEN res.columns[1].name ELSE last.arg.keys[1]
        nulls == NullRows(res, key)
    IN \A i \in nulls : \A j \in DOMAIN res.index \ nulls :
         IF last.name = "first" THEN i < j ELSE j < i

\* the Expression b.get_rows(b.sorted_indices(ascending)) of the pool for
\* the Expression b.sort(ascending) of the pool
ViaSortedIndices(e) == IF e = 9 THEN 11 ELSE 14

\* C16: sorting agrees with sorted_indices followed by get_rows: selecting
\* b.sort(ascending) gives the rows that selecting
\* b.get_rows(b.sorted_indices(ascending)) gives, for both directions, with
\* ties and with nulls.
C16_SortAgreesWithSortedIndices ==
  (last.op = "select" /\ last.arg \in {<<ExprRef(9)>>, <<ExprRef(12)>>}) =>
    LET via == select(Heap, frames[tables[last.recv].df], tables[last.recv].api_version,
                      <<ExprRef(ViaSortedIndices(last.arg[1].id))>>)
    IN IF IsErr(via) THEN last.outcome = via.err
       ELSE last.outcome = "ok" /\ frames[tables[last.result.id].df] = via.df

\* q and r are the floor quotient and the remainder of a by b, elementwise
IsDivMod(a, b, q, r) ==
  /\ IsSeries(q) /\ IsSeries(r)
  /\ Len(q.vals) = Len(a.vals) /\ Len(r.vals) = Len(a.vals)
  /\ \A i \in DOMAIN a.vals :
       LET d == IF b.kind = "scalar" THEN b.v ELSE b.vals[i]
       IN /\ a.vals[i] = q.vals[i] * d + r.vals[i]
          /\ d > 0 => (0 <= r.vals[i] /\ r.vals[i] < d)
          /\ d < 0 => (d < r.vals[i] /\ r.vals[i] <= 0)

\* C17: divmod(a, b) on Expressions and on Columns gives a quotient and a
\* remainder that each resolve on their own, with quotient = a floordiv b
\* and a = quotient * b + remainder elementwise, for integers a and
\* non-zero integers b of either sign, b a column or a scalar.
C17_Divmod ==
  /\ last.op = "divmod" =>
       LET df == frames[tables[1].df]
       IN IsDivMod(Resolve(Heap, df, ExprRef(last.recv)), Resolve(Heap, df, last.arg),
                   Resolve(Heap, df, last.result.quotient),
                   Resolve(Heap, df, last.result.remainder))
  /\ last.op = "column_divmod" =>
       /\ last.outcome = "ok"
       /\ IsDivMod(cols[last.recv].series,
                   IF last.arg.kind = "column" THEN cols[last.arg.id].series ELSE last.arg,
                   last.result.quotient.series, last.result.remainder.series)

\* a divmod of a negative and a positive element by a negative scalar that
\* does not divide them evenly has been taken
C17_Witness ==
  /\ last.op \in {"divmod", "column_divmod"}
  /\ last.arg.kind = "scalar" /\ last.arg.v = -2
  /\ cols[1].series.vals = <<-3, 3>>

\* ---------------------------------------------------------------------
\* C18: null and NaN are distinct on every floating column
\* ---------------------------------------------------------------------
IsFloating(dtype) == dtype \in {"float64", "Float64"}
\* what a slot of a floating column holds: numpy storage has NaN only
HoldsNaN(column, i) ==
  IF is_extension_array_dtype(column.dtype) THEN column.vals[i] = NaN
  ELSE column.vals[i] = NA
HoldsNull(column, i) == is_extension_array_dtype(column.dtype) /\ column.vals[i] = NA

\* the is_null / is_nan just answered: the column asked about, the answer,
\* and the answer of the other of the two on the same column
NullNanAnswers ==
  IF last.outcome # "ok" THEN {}
  ELSE LET df == DataFrameOfTable(last.recv)
           out == DataFrameOfTable(last.result.id)
       IN IF last.op \in {"is_null", "is_nan"}
          THEN {[column |-> df.columns[c], nan |-> last.op = "is_nan",
                 vals |-> out.columns[c].vals,
                 other |-> IF last.op = "is_nan"
                           THEN is_null(df, Api(last.recv)).df.columns[c].vals
                           ELSE is_nan(df, Api(last.recv)).df.columns[c].vals] :
                  c \in DOMAIN df.columns}
          ELSE IF last.op = "select" /\ last.arg \in {<<ExprRef(3)>>, <<ExprRef(4)>>}
                  /\ HasColumn(df, "a")
          THEN {[column |-> df.columns[ColumnPos(df, "a")], nan |-> last.arg = <<ExprRef(4)>>,
                 vals |-> out.columns[1].vals,
                 other |-> Resolve(Heap, df,
                                   IF last.arg = <<ExprRef(4)>> THEN ExprRef(3)
                                   ELSE ExprRef(4)).vals]}
          ELSE {}

\* C18: on a floating column, whatever its storage, is_nan is true exactly
\* at the slots that hold NaN and is_null exactly at the slots that hold
\* null, and no slot has both true; [1.0, NaN, null] gives
\* [false, true, false] for is_nan and [false, false, true] for is_null.
C18_NullNanDistinct ==
  \A r \in NullNanAnswers :
    IsFloating(r.column.dtype) =>
      \A i \in DOMAIN r.vals :
        /\ (r.vals[i] = 1) <=> (IF r.nan THEN HoldsNaN(r.column, i) ELSE HoldsNull(r.column, i))
        /\ ~(r.vals[i] = 1 /\ r.other[i] = 1)

\* C18 on the extension dtype alone, where it holds
C18_OnExtension ==
  \A r \in NullNanAnswers :
    r.column.dtype = "Float64" =>
      \A i \in DOMAIN r.vals :
        /\ (r.vals[i] = 1) <=> (IF r.nan THEN HoldsNaN(r.column, i) ELSE HoldsNull(r.column, i))
        /\ ~(r.vals[i] = 1 /\ r.other[i] = 1)

\* ---------------------------------------------------------------------
\* C19: fill_nan and fill_null change their own kind of slot only
\* ---------------------------------------------------------------------
\* the fill just done: each column before, its values after, which of the
\* two it was, and whether the column was among those to fill
Fills ==
  IF last.outcome # "ok" THEN {}
  ELSE LET df == DataFrameOfTable(last.recv)
           out == DataFrameOfTable(last.result.id)
       IN IF last.op \in {"fill_nan", "fill_null"}
          THEN {[column |-> df.columns[c], nan |-> last.op = "fill_nan",
                 vals |-> out.columns[c].vals,
                 listed |-> \/ last.op = "fill_nan"
                            \/ last.arg.column_names = <<>>
                            \/ df.columns[c].name \in SeqToSet(last.arg.column_names)] :
                  c \in DOMAIN df.columns}
          ELSE IF last.op = "select"
                  /\ last.arg \in {<<ExprRef(5)>>, <<ExprRef(6)>>, <<ExprRef(11)>>}
                  /\ HasColumn(df, "a")
          THEN {[column |-> df.columns[ColumnPos(df, "a")], nan |-> last.arg = <<ExprRef(5)>>,
                 vals |-> out.columns[1].vals, listed |-> TRUE]}
          ELSE {}

FillKeeps(r, i) ==
  \/ r.vals[i] = r.column.vals[i]
  \/ /\ r.listed
     /\ IsFloating(r.column.dtype)
     /\ IF r.nan THEN HoldsNaN(r.column, i) ELSE HoldsNull(r.column, i)

\* C19: fill_nan(v) changes only the slots that hold NaN, fill_null(v) only
\* the slots that hold null, every other slot and every ordinary value is
\* left as it was, and fill_null with column_names leaves the columns that
\* are not listed as they were.
C19_FillFrame ==
  \A r \in Fills :
    /\ DOMAIN r.vals = DOMAIN r.column.vals
    /\ \A i \in DOMAIN r.vals : FillKeeps(r, i)

\* C19 for fill_nan, and for fill_null on the extension dtype and on the
\* columns without a missing value, where it holds
C19_ExceptNumpyFillNull ==
  \A r \in Fills :
    (r.nan \/ r.column.dtype # "float64") =>
      /\ DOMAIN r.vals = DOMAIN r.column.vals
      /\ \A i \in DOMAIN r.vals : FillKeeps(r, i)

\* ---------------------------------------------------------------------
\* C20: is_in and the element types
\* ---------------------------------------------------------------------
\* the is_in Expressions of the pool: the tested column and the candidates
IsInTests ==
  {[e |-> 7, column |-> "b", values |-> cols[2].series],
   [e |-> 8, column |-> "b", values |-> cols[1].series]}

Incompatible(dtype, other) == IsNumeric(dtype) # IsNumeric(other)

\* C20: is_in fails (TypeMismatch) when the element types of the tested
\* column and of the candidate values are incompatible, and never answers
\* with a column in that case; when the types agree the answer is true
\* exactly at the positions whose value occurs among the candidates.
C20_IsInTypes ==
  \A r \in IsInTests :
    (last.op = "select" /\ last.arg = <<ExprRef(r.e)>>
       /\ HasColumn(DataFrameOfTable(last.recv), r.column)) =>
      LET tested == LocColumn(DataFrameOfTable(last.recv), r.column)
      IN IF Incompatible(tested.dtype, r.values.dtype)
         THEN last.outcome # "ok"
         ELSE /\ last.outcome = "ok"
              /\ DataFrameOfTable(last.result.id).columns[1].vals =
                   [i \in DOMAIN tested.vals |->
                      B(\E j \in DOMAIN r.values.vals : r.values.vals[j] = tested.vals[i])]

\* C20 for candidates of the element type of the tested column, where it holds
C20_WhenTypesAgree ==
  \A r \in IsInTests :
    (last.op = "select" /\ last.arg = <<ExprRef(r.e)>>
       /\ HasColumn(DataFrameOfTable(last.recv), r.column)
       /\ ~Incompatible(LocColumn(DataFrameOfTable(last.recv), r.column).dtype,
                        r.values.dtype)) =>
      LET tested == LocColumn(DataFrameOfTable(last.recv), r.column)
      IN /\ last.outcome = "ok"
         /\ DataFrameOfTable(last.result.id).columns[1].vals =
              [i \in DOMAIN tested.vals |->
                 B(\E j \in DOMAIN r.values.vals : r.values.vals[j] = tested.vals[i])]

\* ---------------------------------------------------------------------
\* C21: GroupBy.any and GroupBy.all require boolean columns
\* ---------------------------------------------------------------------
\* the key tuples of the rows of df whose key has no missing part
DistinctKeys(df, keys) ==
  {[k \in DOMAIN keys |-> df.columns[ColumnPos(df, keys[k])].vals[i]] :
     i \in {j \in DOMAIN df.index :
              \A k \in DOMAIN keys : df.columns[ColumnPos(df, keys[k])].vals[j] # NA}}

NonBooleanColumn(df, keys) ==
  \E c \in DOMAIN df.columns :
    df.columns[c].name \notin SeqToSet(keys) /\ df.columns[c].dtype # "bool"

\* C21: GroupBy.any and GroupBy.all fail with ValueError whenever some
\* non-key column of the originating Table is not boolean, whatever the
\* aggregation would have given; when every non-key column is boolean they
\* return a Table with one row per distinct key.
C21_AnyAllBooleanness ==
  (last.op = "groupby" /\ last.name \in {"any", "all"}
     /\ groupby(DataFrameOfTable(last.recv), last.arg) = "ok") =>
    LET df == DataFrameOfTable(last.recv)
    IN IF NonBooleanColumn(df, last.arg)
       THEN last.outcome = "ValueError"
       ELSE /\ last.outcome = "ok"
            /\ LET out == DataFrameOfTable(last.result.id)
               IN /\ Len(out.index) = Cardinality(DistinctKeys(df, last.arg))
                  /\ DistinctKeys(out, last.arg) = DistinctKeys(df, last.arg)

\* any() was refused on a Table with an integer column beside the key
C21_Witness ==
  /\ last.op = "groupby" /\ last.name = "any" /\ last.arg = <<"key">>
  /\ last.outcome = "ValueError"
  /\ NonBooleanColumn(DataFrameOfTable(last.recv), last.arg)

\* ---------------------------------------------------------------------
\* C22: no aggregation drops a source column
\* ---------------------------------------------------------------------
\* the grouping keys and then the names of the other columns of df
KeysAndSources(df, keys) ==
  keys \o SelectPos(ColumnNames(df),
                    {c \in DOMAIN df.columns : df.columns[c].name \notin SeqToSet(keys)})

\* C22: every aggregation of GroupBy (any, all, min, max, sum, prod, median,
\* mean, std, var and size) that returns a Table returns one whose columns
\* are exactly the grouping keys and one column per non-key source column;
\* no aggregation returns a Table from which a source column is missing.
C22_AggregationKeepsColumns ==
  (last.op = "groupby" /\ last.outcome = "ok") =>
    ColumnNames(DataFrameOfTable(last.result.id)) =
      KeysAndSources(DataFrameOfTable(last.recv), last.arg)

\* C22 for the aggregations other than size, where it holds
C22_ExceptSize ==
  (last.op = "groupby" /\ last.outcome = "ok" /\ last.name # "size") =>
    ColumnNames(DataFrameOfTable(last.result.id)) =
      KeysAndSources(DataFrameOfTable(last.recv), last.arg)

\* ---------------------------------------------------------------------
\* C23: collect is idempotent and changes no data
\* ---------------------------------------------------------------------
\* C23: for every Table, collected or not, collect succeeds and its result
\* has the column names, the order and the values of the Table; so collect
\* of a collected Table gives a Table equal to it.
C23_CollectIdempotent ==
  last.op = "collect" =>
    /\ last.outcome = "ok"
    /\ DataFrameOfTable(last.result.id) = DataFrameOfTable(last.recv)

\* C23 for the Tables that are not collected, where it holds
C23_CollectOnce ==
  (last.op = "collect" /\ ~tables[last.recv].eager) =>
    /\ last.outcome = "ok"
    /\ DataFrameOfTable(last.result.id) = DataFrameOfTable(last.recv)
    /\ tables[last.result.id].eager

\* ---------------------------------------------------------------------
\* C24: Column.get_value and the range of positions
\* ---------------------------------------------------------------------
\* C24: get_value(position) returns the value at the canonical position p
\* for every 0 <= p < len, and fails (IndexOutOfRange) for every position
\* outside that range, every negative position included.
C24_GetValueRange ==
  last.op = "get_value" =>
    LET series == cols[last.recv].series
        p == last.arg.v
    IN IF 0 <= p /\ p < Len(series.vals)
       THEN last.outcome = "ok" /\ last.result = Scalar(series.vals[p + 1], series.dtype)
       ELSE last.outcome # "ok"

\* C24 for the positions that are not negative, where it holds
C24_NotNegative ==
  (last.op = "get_value" /\ last.arg.v >= 0) =>
    LET series == cols[last.recv].series
        p == last.arg.v
    IN IF p < Len(series.vals)
       THEN last.outcome = "ok" /\ last.result = Scalar(series.vals[p + 1], series.dtype)
       ELSE last.outcome = "IndexError"

\* ---------------------------------------------------------------------
\* C30: Column.slice_rows and Table.slice_rows select the same rows
\* ---------------------------------------------------------------------
\* the Table of the one column
TableOfColumn(column) ==
  DataFrameOf(column.series.index, <<AsColumn(column.series, "a")>>)

\* the slice just taken gives, on the Column and on the Table of the same
\* rows, the same values
SameSlice(step_ok) ==
  /\ (last.op = "column_slice_rows" /\ step_ok) =>
       LET column == cols[last.recv]
           onTable == slice_rows(TableOfColumn(column), column.api_version,
                                 last.arg.start, last.arg.stop, last.arg.step)
       IN /\ last.outcome = "ok"
          /\ ~IsErr(onTable)
          /\ cols[last.result.id].series.vals = onTable.df.columns[1].vals
          /\ IsCanonical(cols[last.result.id].series.index)
  /\ (last.op = "slice_rows" /\ step_ok) =>
       LET df == DataFrameOfTable(last.recv)
       IN /\ last.outcome = "ok"
          /\ IsCanonical(DataFrameOfTable(last.result.id).index)
          /\ \A c \in DOMAIN df.columns :
               LET onColumn == column_slice_rows(
                                 PandasColumn(SeriesOf(df, c), Api(last.recv)),
                                 last.arg.start, last.arg.stop, last.arg.step)
               IN /\ ~IsErr(onColumn)
                  /\ DataFrameOfTable(last.result.id).columns[c].vals = onColumn.series.vals

\* C30: Column.slice_rows and Table.slice_rows select the same row positions
\* for the same (start, stop, step), for every combination of integer and
\* absent bounds and every step that is not zero, negative steps included,
\* and both results have a canonical index.
C30_SliceRowsAgree ==
  SameSlice(last.op \in {"column_slice_rows", "slice_rows"} /\ ~ZeroStep(last.arg.step))

\* C30 for the steps that are positive or absent, where it holds
C30_PositiveStep ==
  SameSlice(/\ last.op \in {"column_slice_rows", "slice_rows"}
            /\ (last.arg.step = None \/ last.arg.step.v > 0))

\* ---------------------------------------------------------------------
\* C25: every result of a resolution is positionally canonical
\* ---------------------------------------------------------------------
\* the last function recorded by the Expression, "" when there is none
LastFunc(operand) ==
  IF operand.kind = "expr" /\ lists[exprs[operand.id].calls] # <<>>
  THEN lists[exprs[operand.id].calls][Len(lists[exprs[operand.id].calls])].func.op
  ELSE ""

\* C25: for every chain of Expression steps (filter, get_rows, sort and
\* sorted_indices included) the column that resolution gives, for the
\* chain and so for each of its prefixes, has the canonical index
\* 0..n-1, so that a later step pairs its values by position.
C25_CanonicalResults ==
  (last.op = "resolve" /\ last.outcome = "ok" /\ IsSeries(last.result)) =>
    IsCanonical(last.result.index)

\* C25 for the base call and for the chains that end in get_rows, sort or
\* sorted_indices, where it holds
C25_ExceptFilter ==
  (last.op = "resolve" /\ last.outcome = "ok" /\ IsSeries(last.result)
     /\ LastFunc(last.arg) \in {"", "get_rows", "sort", "sorted_indices"}) =>
    IsCanonical(last.result.index)

\* ---------------------------------------------------------------------
\* C26: root_names holds every column a resolution reads
\* ---------------------------------------------------------------------
\* the columns of the bound Table that resolving the operand reads: the
\* names its base calls look up, through the lhs and the rhs of every step
RECURSIVE ReadNames(_, _)
ReadNames(operand, depth) ==
  IF operand.kind # "expr" \/ depth > RecursionLimit THEN {}
  ELSE LET e == exprs[operand.id]
           calls == lists[e.calls]
       IN IF calls = <<>>
          THEN (IF e.base_call.kind = "loc" THEN {e.base_call.name} ELSE {})
          ELSE UNION {ReadNames(calls[i].lhs, depth + 1) \cup ReadNames(calls[i].rhs, depth + 1) :
                        i \in DOMAIN calls}

\* C26: for every Expression E built by any chain of operations,
\* E.root_names contains the name of every source column that resolving E
\* reads from the bound Table, those read through right-hand operands that
\* are Expressions included (a + b, a.get_rows(b)).
C26_RootNamesLineage ==
  \A e \in DOMAIN exprs : ReadNames(ExprRef(e), 0) \subseteq SeqToSet(exprs[e].root_names)

\* C26 for the columns read through the left-hand operands alone, where it holds
C26_LeftLineage ==
  \A e \in DOMAIN exprs :
    exprs[RootOf(Heap, e)].base_call.kind = "loc" =>
      exprs[RootOf(Heap, e)].base_call.name \in SeqToSet(exprs[e].root_names)

\* ---------------------------------------------------------------------
\* C27: the Column transformations that delegate to the Expression
\* ---------------------------------------------------------------------
\* C27: the Column methods cumulative_sum, cumulative_prod, cumulative_max,
\* cumulative_min, unique_indices and filter complete without an internal
\* lookup or construction failure and return a Column; cumulative_sum
\* returns the running sums that the Expression operation gives.
C27_ColumnDelegation ==
  last.op \in {"column_transformation", "column_filter"} =>
    /\ last.outcome = "ok"
    /\ last.result.kind = "pcolumn"
    /\ last.name = "cumulative_sum" =>
         last.result.series.vals = CumSum(cols[last.recv].series).vals

\* ---------------------------------------------------------------------
\* C28: a resolution applies every recorded step once
\* ---------------------------------------------------------------------
\* the Expression has recorded steps and every right operand is a scalar
\* (or there is none)
ScalarChain(e) ==
  /\ lists[exprs[e].calls] # <<>>
  /\ \A i \in DOMAIN lists[exprs[e].calls] :
       lists[exprs[e].calls][i].rhs.kind \in {"scalar", "none"}

\* C28: resolving an Expression built by n chained steps with scalar right
\* operands invokes the base call exactly once and applies each recorded
\* step's operation exactly once: n applications in all.
C28_SingleApplication ==
  (last.op = "resolve" /\ last.outcome = "ok" /\ last.arg.kind = "expr"
     /\ ScalarChain(last.arg.id)) =>
    /\ resolution_work(Heap, last.arg, 0).applications = Len(lists[exprs[last.arg.id].calls])
    /\ resolution_work(Heap, last.arg, 0).base_calls = 1

\* C28 for the chains of one step, where it holds
C28_OneStep ==
  (last.op = "resolve" /\ last.outcome = "ok" /\ last.arg.kind = "expr"
     /\ ScalarChain(last.arg.id) /\ Len(lists[exprs[last.arg.id].calls]) = 1) =>
    /\ resolution_work(Heap, last.arg, 0).applications = 1
    /\ resolution_work(Heap, last.arg, 0).base_calls = 1

\* ---------------------------------------------------------------------
\* C29: the api version is handed on and gates update_columns
\* ---------------------------------------------------------------------
\* C29: every Table an operation returns carries the receiver's
\* api_version, a Table or Column exists only with a supported api_version,
\* and update_columns raises NotImplementedError, whatever its argument
\* would resolve to, exactly on the Tables whose api_version is
\* "2023.08-beta" (those that descend from a Table created with it).
C29_ApiVersionGating ==
  [][/\ \A t \in DOMAIN tables' : tables'[t].api_version \in SUPPORTED_VERSIONS
     /\ \A c \in DOMAIN cols' : cols'[c].api_version \in SUPPORTED_VERSIONS
     /\ \A c \in DOMAIN cols : \A api_version \in ApiVersions \cup SUPPORTED_VERSIONS :
          IsErr(PandasColumn(cols[c].series, api_version))
            <=> api_version \notin SUPPORTED_VERSIONS
     /\ (Len(tables') > Len(tables) /\ last'.recv # 0) =>
          tables'[Len(tables')].api_version = tables[last'.recv].api_version
     /\ (last'.op = "construct" /\ last'.name \notin SUPPORTED_VERSIONS) =>
          (tables' = tables /\ last'.outcome # "ok")
     /\ last'.op = "update_columns" =>
          /\ last'.outcome = "NotImplementedError"
               <=> tables[last'.recv].api_version = "2023.08-beta"
          /\ tables[last'.recv].api_version = "2023.08-beta" => frames' = frames]_vars

\* update_columns is refused on a Table that an operation returned and that
\* carries "2023.08-beta"
C29_Witness ==
  /\ last.op = "update_columns"
  /\ last.recv > 2
  /\ tables[last.recv].api_version = "2023.08-beta"
  /\ last.outcome = "NotImplementedError"

====
